---- MODULE Spec2Model ----
(***************************************************************************)
(* Model of the datakit-filter execution engine: the dependency graph,     *)
(* the per-transaction Data store, the scheduler loop run_nodes, the       *)
(* resume path on_http_call_response and the four HTTP phase callbacks.    *)
(*                                                                         *)
(* Encodings.  Option<T>: <<>> is None and <<v>> is Some(v).               *)
(* Option<Payload>: "None", or the variant of the payload ("Json", "Raw",  *)
(* "Error").  A BTreeMap is a function whose DOMAIN is its key set.        *)
(***************************************************************************)
EXTENDS Integers, Sequences, FiniteSets, TLC

\* ------------------------------------------------------------------------
\* Bounds
\* ------------------------------------------------------------------------

\* Largest token id the host hands out or delivers.
MaxToken == 2

\* Invocation counters saturate at this value.
MaxCount == 2

\* Most calls of create_http_context followed on one root context.
MaxContexts == 2

\* Most add calls made on one DependencyGraph.
MaxAdds == 3

\* Most elements of an array in a headers object.
MaxValues == 2

\* Most bytes of a body given to Payload::from_bytes.
MaxBytes == 3

\* Most inputs given to Jq::run, and most items its filter yields.
MaxJq == 2

\* Most add calls that give a provider to the name a Data is asked about.
MaxProviders == 2

\* ------------------------------------------------------------------------
\* State (data.rs)
\* ------------------------------------------------------------------------

Waiting(t) == [tag |-> "Waiting", payload |-> "None", token |-> t]

Done(p) == [tag |-> "Done", payload |-> p, token |-> 0]

Fail(p) == [tag |-> "Fail", payload |-> p, token |-> 0]

Tokens == 1..MaxToken

\* ------------------------------------------------------------------------
\* DependencyGraph (dependency_graph.rs)
\* ------------------------------------------------------------------------

EmptyMap == [x \in {} |-> <<>>]

EmptyGraph == [dependents |-> EmptyMap, providers |-> EmptyMap]

Contains(seq, v) == \E i \in 1..Len(seq) : seq[i] = v

add_to_always_push(map, key, value) ==
    IF key \in DOMAIN map
    THEN [map EXCEPT ![key] = Append(@, value)]
    ELSE [k \in DOMAIN map \cup {key} |->
             IF k = key THEN <<value>> ELSE map[k]]

add_to(map, key, value) ==
    IF key \in DOMAIN map
    THEN IF Contains(map[key], value)
         THEN map
         ELSE [map EXCEPT ![key] = Append(@, value)]
    ELSE [k \in DOMAIN map \cup {key} |->
             IF k = key THEN <<value>> ELSE map[k]]

add_dependents_only(g, src, dst) ==
    [dependents |-> add_to(g.dependents, src, dst),
     providers  |-> g.providers]

add(g, src, dst) ==
    [dependents |-> add_to(g.dependents, src, dst),
     providers  |-> add_to(g.providers, dst, src)]

has_dependents(g, name) == name \in DOMAIN g.dependents

has_providers(g, name) == name \in DOMAIN g.providers

each_input(g, name) ==
    IF name \in DOMAIN g.providers THEN g.providers[name] ELSE <<>>

\* ------------------------------------------------------------------------
\* Config (config.rs)
\* ------------------------------------------------------------------------

RESERVED_NODE_NAMES ==
    {"request_headers", "request_body",
     "service_request_headers", "service_request_body",
     "service_response_headers", "service_response_body",
     "response_headers", "response_body"}

RECURSIVE AddInputs(_, _, _, _)
AddInputs(g, inputs, name, i) ==
    IF i > Len(inputs) THEN g
    ELSE AddInputs(add(g, inputs[i], name), inputs, name, i + 1)

RECURSIVE AddOutputs(_, _, _, _)
AddOutputs(g, outputs, name, i) ==
    IF i > Len(outputs) THEN g
    ELSE AddOutputs(add(g, name, outputs[i]), outputs, name, i + 1)

\* The first loop of Config::new over the user's nodes, from node i on.
RECURSIVE BuildGraph(_, _, _)
BuildGraph(g, nodes, i) ==
    IF i > Len(nodes) THEN g
    ELSE BuildGraph(
            AddOutputs(AddInputs(g, nodes[i].inputs, nodes[i].name, 1),
                       nodes[i].outputs, nodes[i].name, 1),
            nodes, i + 1)

HasReservedName(nodes) ==
    \E i \in 1..Len(nodes) : nodes[i].name \in RESERVED_NODE_NAMES

NodeNamesOf(nodes) == [i \in 1..Len(nodes) |-> nodes[i].name]

\* The node types registered in main.
NodeTypes == {"template", "call", "response", "jq"}

HasUnknownType(nodes) ==
    \E i \in 1..Len(nodes) : nodes[i].type \notin NodeTypes

\* The Err of Config::new on a parsed user configuration, <<>> if it is Ok:
\* the first reserved name met by the first loop or else the first
\* unregistered type met by the second.
ConfigNewError(uc) ==
    IF HasReservedName(uc.nodes)
    THEN LET i == CHOOSE k \in 1..Len(uc.nodes) :
                     /\ uc.nodes[k].name \in RESERVED_NODE_NAMES
                     /\ \A j \in 1..(k - 1) :
                           uc.nodes[j].name \notin RESERVED_NODE_NAMES
         IN  <<"cannot use reserved node name", uc.nodes[i].name>>
    ELSE IF HasUnknownType(uc.nodes)
    THEN LET i == CHOOSE k \in 1..Len(uc.nodes) :
                     /\ uc.nodes[k].type \notin NodeTypes
                     /\ \A j \in 1..(k - 1) : uc.nodes[j].type \in NodeTypes
         IN  <<"no such node type", uc.nodes[i].type>>
    ELSE <<>>

\* DependencyGraph::get_input_names
get_input_names(g, name) ==
    IF name \in DOMAIN g.providers THEN g.providers[name] ELSE <<>>

\* new_config_inputs that hands over the inputs the user declared.
new_config_inputs_declared(g, nodes) ==
    [i \in 1..Len(nodes) |-> nodes[i].inputs]

\* The second loop of Config::new: the inputs given to new_config for each
\* node, which a JqConfig stores.
new_config_inputs(g, nodes) ==
    [i \in 1..Len(nodes) |-> get_input_names(g, nodes[i].name)]

\* ConfigNew that accepts reserved names.
ConfigNew_accepts_reserved(uc) ==
    IF HasUnknownType(uc.nodes) THEN <<>>
    ELSE << [node_list  |-> uc.nodes,
             node_names |-> NodeNamesOf(uc.nodes),
             graph      |-> BuildGraph(EmptyGraph, uc.nodes, 1),
             node_inputs |->
                 new_config_inputs(BuildGraph(EmptyGraph, uc.nodes, 1),
                                   uc.nodes),
             debug      |-> uc.debug] >>

\* Config::new on a parsed user configuration: <<>> on error.
ConfigNew(uc) ==
    IF ConfigNewError(uc) # <<>> THEN <<>>
    ELSE << [node_list  |-> uc.nodes,
             node_names |-> NodeNamesOf(uc.nodes),
             graph      |-> BuildGraph(EmptyGraph, uc.nodes, 1),
             node_inputs |->
                 new_config_inputs(BuildGraph(EmptyGraph, uc.nodes, 1),
                                   uc.nodes),
             debug      |-> uc.debug] >>

\* ------------------------------------------------------------------------
\* Data (data.rs)
\* ------------------------------------------------------------------------

\* Data::set
DataSet(st, name, state) ==
    [k \in DOMAIN st \cup {name} |-> IF k = name THEN state ELSE st[k]]

IsDone(st, name) == name \in DOMAIN st /\ st[name].tag = "Done"

\* can_trigger without the early return for a Done node.
can_trigger_rerun_done(st, g, name, waiting) ==
    LET state_ok ==
            IF name \in DOMAIN st
            THEN CASE st[name].tag = "Done" -> TRUE
                   [] st[name].tag = "Waiting" ->
                        IF waiting # <<>>
                        THEN st[name].token = waiting[1]
                        ELSE FALSE
                   [] st[name].tag = "Fail" -> FALSE
            ELSE TRUE
        inputs == each_input(g, name)
    IN  /\ state_ok
        /\ \A i \in 1..Len(inputs) : IsDone(st, inputs[i])

\* can_trigger whose input check lets a Waiting provider pass.
can_trigger_waiting_input(st, g, name, waiting) ==
    LET state_ok ==
            IF name \in DOMAIN st
            THEN CASE st[name].tag = "Done" -> FALSE
                   [] st[name].tag = "Waiting" ->
                        IF waiting # <<>>
                        THEN st[name].token = waiting[1]
                        ELSE FALSE
                   [] st[name].tag = "Fail" -> FALSE
            ELSE TRUE
        inputs == each_input(g, name)
    IN  /\ state_ok
        /\ \A i \in 1..Len(inputs) :
              inputs[i] \in DOMAIN st /\ st[inputs[i]].tag \in {"Done", "Waiting"}

\* can_trigger whose input check lets a Fail provider pass.
can_trigger_fail_input(st, g, name, waiting) ==
    LET state_ok ==
            IF name \in DOMAIN st
            THEN CASE st[name].tag = "Done" -> FALSE
                   [] st[name].tag = "Waiting" ->
                        IF waiting # <<>>
                        THEN st[name].token = waiting[1]
                        ELSE FALSE
                   [] st[name].tag = "Fail" -> FALSE
            ELSE TRUE
        inputs == each_input(g, name)
    IN  /\ state_ok
        /\ \A i \in 1..Len(inputs) :
              inputs[i] \in DOMAIN st /\ st[inputs[i]].tag \in {"Done", "Fail"}

\* can_trigger whose input check lets a provider without a state pass.
can_trigger_absent_input(st, g, name, waiting) ==
    LET state_ok ==
            IF name \in DOMAIN st
            THEN CASE st[name].tag = "Done" -> FALSE
                   [] st[name].tag = "Waiting" ->
                        IF waiting # <<>>
                        THEN st[name].token = waiting[1]
                        ELSE FALSE
                   [] st[name].tag = "Fail" -> FALSE
            ELSE TRUE
        inputs == each_input(g, name)
    IN  /\ state_ok
        /\ \A i \in 1..Len(inputs) :
              inputs[i] \in DOMAIN st => st[inputs[i]].tag = "Done"

\* can_trigger that lets a Waiting node pass whatever the token.
can_trigger_rerun_waiting(st, g, name, waiting) ==
    LET state_ok ==
            IF name \in DOMAIN st
            THEN CASE st[name].tag = "Done" -> FALSE
                   [] st[name].tag = "Waiting" -> TRUE
                   [] st[name].tag = "Fail" -> FALSE
            ELSE TRUE
        inputs == each_input(g, name)
    IN  /\ state_ok
        /\ \A i \in 1..Len(inputs) : IsDone(st, inputs[i])

\* can_trigger that lets a Waiting node pass with any token given.
can_trigger_any_token(st, g, name, waiting) ==
    LET state_ok ==
            IF name \in DOMAIN st
            THEN CASE st[name].tag = "Done" -> FALSE
                   [] st[name].tag = "Waiting" -> waiting # <<>>
                   [] st[name].tag = "Fail" -> FALSE
            ELSE TRUE
        inputs == each_input(g, name)
    IN  /\ state_ok
        /\ \A i \in 1..Len(inputs) : IsDone(st, inputs[i])

\* Data::can_trigger; waiting is an Option<u32>.
can_trigger(st, g, name, waiting) ==
    LET state_ok ==
            IF name \in DOMAIN st
            THEN CASE st[name].tag = "Done" -> FALSE
                   [] st[name].tag = "Waiting" ->
                        IF waiting # <<>>
                        THEN st[name].token = waiting[1]
                        ELSE FALSE
                   [] st[name].tag = "Fail" -> FALSE
            ELSE TRUE
        inputs == each_input(g, name)
    IN  /\ state_ok
        /\ \A i \in 1..Len(inputs) : IsDone(st, inputs[i])

\* InputSlots that pushes the payloads there are, no None.
RECURSIVE InputSlots_skips_none(_, _, _)
InputSlots_skips_none(st, inputs, i) ==
    IF i > Len(inputs) THEN <<>>
    ELSE IF IsDone(st, inputs[i]) /\ st[inputs[i]].payload # "None"
         THEN <<st[inputs[i]].payload>>
                 \o InputSlots_skips_none(st, inputs, i + 1)
         ELSE InputSlots_skips_none(st, inputs, i + 1)

\* The payload slots pushed by get_inputs_for, from input i on.
RECURSIVE InputSlots(_, _, _)
InputSlots(st, inputs, i) ==
    IF i > Len(inputs) THEN <<>>
    ELSE IF IsDone(st, inputs[i])
         THEN <<st[inputs[i]].payload>> \o InputSlots(st, inputs, i + 1)
         ELSE InputSlots(st, inputs, i + 1)

\* Data::get_inputs_for: Option<Vec<Option<&Payload>>>.
get_inputs_for(st, g, name, waiting) ==
    IF ~can_trigger(st, g, name, waiting) THEN <<>>
    ELSE << InputSlots(st, each_input(g, name), 1) >>

\* FirstDone that looks for the first payload there is.
RECURSIVE FirstDone_first_some(_, _, _)
FirstDone_first_some(st, inputs, i) ==
    IF i > Len(inputs) THEN "None"
    ELSE IF IsDone(st, inputs[i]) /\ st[inputs[i]].payload # "None"
         THEN st[inputs[i]].payload
         ELSE FirstDone_first_some(st, inputs, i + 1)

\* The first Done provider's payload, from input i on.
RECURSIVE FirstDone(_, _, _)
FirstDone(st, inputs, i) ==
    IF i > Len(inputs) THEN "None"
    ELSE IF IsDone(st, inputs[i]) THEN st[inputs[i]].payload
         ELSE FirstDone(st, inputs, i + 1)

\* Data::first_input_for: Option<&Payload>.
first_input_for(st, g, name, waiting) ==
    IF ~can_trigger(st, g, name, waiting) THEN "None"
    ELSE FirstDone(st, each_input(g, name), 1)

\* Payload::from_bytes: the results it can give for a content type
\* (absent, "application/json" or another one), over all byte strings.
from_bytes(content_type) ==
    IF content_type = <<>> THEN {"None"}
    ELSE IF content_type[1] = "application/json" THEN {"Json", "Error"}
    ELSE {"Raw"}

ContentTypes == {<<>>, <<"application/json">>, <<"text/plain">>}

\* serde_json::Value as far as bodies go: a number of n digits or an
\* array of values.
TNumber(n) == [kind |-> "Number", n |-> n, items |-> <<>>]
TArray(xs) == [kind |-> "Array", n |-> 0, items |-> xs]

\* What a parsing step gives: whether it succeeded, the position after
\* the value (or of the error) and the value.
Parsed(i, tree) == [ok |-> TRUE, next |-> i, tree |-> tree]
ParseError(i) == [ok |-> FALSE, next |-> i, tree |-> TNumber(0)]

\* The number of digits from position i on.
RECURSIVE Digits(_, _)
Digits(b, i) ==
    IF i <= Len(b) /\ b[i] = "1" THEN 1 + Digits(b, i + 1) ELSE 0

\* serde_json's parser on the bytes "1", "[", "]" and ",": a value from
\* position i on, and the rest of an array from position i on.
RECURSIVE parse_value(_, _)
RECURSIVE parse_elements(_, _, _)
parse_value(b, i) ==
    IF i > Len(b) THEN ParseError(i)
    ELSE IF b[i] = "1" THEN Parsed(i + Digits(b, i), TNumber(Digits(b, i)))
    ELSE IF b[i] = "["
         THEN IF i + 1 <= Len(b) /\ b[i + 1] = "]"
              THEN Parsed(i + 2, TArray(<<>>))
              ELSE parse_elements(b, i + 1, <<>>)
    ELSE ParseError(i)

parse_elements(b, i, acc) ==
    LET v == parse_value(b, i)
    IN  IF ~v.ok THEN v
        ELSE IF v.next > Len(b) THEN ParseError(v.next)
        ELSE IF b[v.next] = ","
             THEN parse_elements(b, v.next + 1, Append(acc, v.tree))
        ELSE IF b[v.next] = "]"
             THEN Parsed(v.next + 1, TArray(Append(acc, v.tree)))
        ELSE ParseError(v.next)

\* serde_json::from_slice: one value and nothing after it.
from_slice(b) ==
    LET v == parse_value(b, 1)
    IN  IF v.ok /\ v.next <= Len(b) THEN ParseError(v.next) ELSE v

\* Payload::from_bytes as the older data.rs has it: nothing on a parse
\* error.
from_bytes_of_none_on_error(bytes, content_type) ==
    IF content_type = <<>> THEN [tag |-> "None", value |-> <<>>]
    ELSE IF content_type[1] = "application/json"
         THEN LET v == from_slice(bytes)
              IN  IF v.ok THEN [tag |-> "Json", value |-> v.tree]
                  ELSE [tag |-> "None", value |-> <<>>]
         ELSE [tag |-> "Raw", value |-> bytes]

\* Payload::from_bytes on given bytes: Option<Payload>, the Error
\* carrying the parser's message (here the position of the error).
from_bytes_of(bytes, content_type) ==
    IF content_type = <<>> THEN [tag |-> "None", value |-> <<>>]
    ELSE IF content_type[1] = "application/json"
         THEN LET v == from_slice(bytes)
              IN  IF v.ok THEN [tag |-> "Json", value |-> v.tree]
                  ELSE [tag |-> "Error", value |-> <<"error at", v.next>>]
         ELSE [tag |-> "Raw", value |-> bytes]

\* serde_json::Value as far as headers go: a string, an array, or
\* something else (a number stands for every other kind).
JString(x) == [kind |-> "String", s |-> x, items |-> <<>>]
JArray(xs) == [kind |-> "Array", s |-> "", items |-> xs]
JNumber == [kind |-> "Number", s |-> "", items |-> <<>>]

\* The keys of a JSON object in the order its map iterates them (byte
\* order: upper case before lower case).
KeyOrder == <<"A", "a", "b">>

\* str::to_lowercase on those keys.
to_lowercase(k) == IF k = "A" THEN "a" ELSE k

\* The (k, s) pairs to_pwm_headers pushes for one entry of the object.
EntryPairs(k, entry) ==
    IF entry.kind = "Array"
    THEN LET strs == SelectSeq(entry.items, LAMBDA v : v.kind = "String")
         IN  [i \in 1..Len(strs) |-> <<k, strs[i].s>>]
    ELSE IF entry.kind = "String" THEN << <<k, entry.s>> >>
    ELSE <<>>

\* Payload::to_pwm_headers on Json(Object(map)): the loop over the map,
\* from the i-th key on.
RECURSIVE to_pwm_headers(_, _)
to_pwm_headers(map, i) ==
    IF i > Len(KeyOrder) THEN <<>>
    ELSE LET k == KeyOrder[i]
         IN  (IF k \in DOMAIN map THEN EntryPairs(k, map[k]) ELSE <<>>)
                \o to_pwm_headers(map, i + 1)

\* The insertion that puts a repeated header's new value first.
insert_header_newest_first(map, lk, v) ==
    IF lk \in DOMAIN map
    THEN IF map[lk].kind = "String"
         THEN [map EXCEPT ![lk] = JArray(<<JString(v), map[lk]>>)]
         ELSE [map EXCEPT ![lk] = JArray(<<JString(v)>> \o @.items)]
    ELSE [k \in DOMAIN map \cup {lk} |->
             IF k = lk THEN JString(v) ELSE map[k]]

\* The body of the loop of from_pwm_headers: a first value is kept as a
\* String, a second one turns it into a Vec, later ones are pushed.
insert_header(map, lk, v) ==
    IF lk \in DOMAIN map
    THEN IF map[lk].kind = "String"
         THEN [map EXCEPT ![lk] = JArray(<<map[lk], JString(v)>>)]
         ELSE [map EXCEPT ![lk] = JArray(Append(@.items, JString(v)))]
    ELSE [k \in DOMAIN map \cup {lk} |->
             IF k = lk THEN JString(v) ELSE map[k]]

\* from_pwm_headers: the loop over the pairs from the i-th on, map being
\* the BTreeMap<String, StringOrVec> built so far.
RECURSIVE from_pwm_headers(_, _, _)
from_pwm_headers(vec, i, map) ==
    IF i > Len(vec) THEN map
    ELSE from_pwm_headers(vec, i + 1,
            insert_header(map, to_lowercase(vec[i][1]), vec[i][2]))

\* ------------------------------------------------------------------------
\* Nodes (nodes.rs, nodes/*.rs)
\* ------------------------------------------------------------------------

Slot(inputs, i) == IF i <= Len(inputs) THEN inputs[i] ELSE "None"

\* Call::run; the host's dispatch_http_call gives Ok(token) or an error.
CallRun(node, inputs, token) ==
    IF node.url = "bad" THEN {Done("None")}
    ELSE IF Slot(inputs, 1) = "Error" THEN {Fail("Error")}
    ELSE {Fail("Error")} \cup (IF token = <<>> THEN {} ELSE {Waiting(token[1])})

\* What get_http_call_response_body gives: None or Some(body).
CallBodies == {"None", "Some"}

\* CallResumeOn that fails when the response has no body.
CallResumeOn_fail_without_body(body) ==
    IF body = "None" THEN {Fail("Error")}
    ELSE {Done(p) : p \in UNION {from_bytes(ct) : ct \in ContentTypes}}

\* Call::resume when the host gives body: from_bytes of the body under the
\* response's Content-Type, None when there is no body.
CallResumeOn(body) ==
    IF body = "None" THEN {Done("None")}
    ELSE {Done(p) : p \in UNION {from_bytes(ct) : ct \in ContentTypes}}

\* Call::resume
CallResume == UNION {CallResumeOn(body) : body \in CallBodies}

\* What handlebars.render gives: Ok(output) or Err(err).
RenderResults == {"Ok", "Err"}

\* TemplateRunOn that returns Done whatever from_bytes gives.
TemplateRunOn_done_any(node, render) ==
    IF render = "Err" THEN {Fail("Error")}
    ELSE {Done(p) : p \in from_bytes(<<node.content_type>>)}

\* Template::run for a result of the rendering: the states it can return
\* over all rendered texts.
TemplateRunOn(node, render) ==
    IF render = "Err" THEN {Fail("Error")}
    ELSE {IF p = "Error" THEN Fail(p) ELSE Done(p) :
             p \in from_bytes(<<node.content_type>>)}

\* Template::run
TemplateRun(node) == UNION {TemplateRunOn(node, r) : r \in RenderResults}

\* The results of the rendering with which a run of node returns state
\* ("" for a node that renders nothing).
RenderOf(node, state) ==
    IF node.type = "template"
    THEN {r \in RenderResults : state \in TemplateRunOn(node, r)}
    ELSE {""}

\* Response::run
ResponseRun(inputs) ==
    IF Slot(inputs, 1) = "Error" THEN {Fail("Error")} ELSE {Done("None")}

\* payload.content_type()
content_type(p) == IF p = "Json" THEN <<"application/json">> ELSE <<>>

\* ResponseCalls that sends a response whatever the phase.
ResponseCalls_always_sends(node, inputs, ph) ==
    LET body == Slot(inputs, 1)
        call(op) ==
            [op |-> op, name |-> node.name, tag |-> "", payload |-> body,
             at |-> 0, since |-> 0,
             status |-> IF node.status = <<>> THEN 200 ELSE node.status[1],
             content_type |-> content_type(body)]
    IN  IF body = "Error" THEN <<>> ELSE << call("send_http_response") >>

\* ResponseCalls that sends the default status whatever the configuration.
ResponseCalls_default_status(node, inputs, ph) ==
    LET body == Slot(inputs, 1)
        call(op) ==
            [op |-> op, name |-> node.name, tag |-> "", payload |-> body,
             at |-> 0, since |-> 0, status |-> 200,
             content_type |-> content_type(body)]
    IN  IF body = "Error" THEN <<>>
        ELSE IF ph = "HttpResponseBody"
        THEN (IF body = "None" THEN <<>> ELSE << call("set_http_response_body") >>)
        ELSE << call("send_http_response") >>

\* The host calls made by Response::run, as entries of trace: in the
\* response body phase the body is set when there is one, in any other
\* phase a response is sent with the configured status (200 by default) and
\* the body's content type; nothing when the body cannot be serialised.
ResponseCalls(node, inputs, ph) ==
    LET body == Slot(inputs, 1)
        call(op) ==
            [op |-> op, name |-> node.name, tag |-> "", payload |-> body,
             at |-> 0, since |-> 0,
             status |-> IF node.status = <<>> THEN 200 ELSE node.status[1],
             content_type |-> content_type(body)]
    IN  IF body = "Error" THEN <<>>
        ELSE IF ph = "HttpResponseBody"
        THEN (IF body = "None" THEN <<>> ELSE << call("set_http_response_body") >>)
        ELSE << call("send_http_response") >>

\* The host calls a node's run makes besides dispatch_http_call.
NodeCalls(node, inputs, ph) ==
    IF node.type = "response" THEN ResponseCalls(node, inputs, ph) ELSE <<>>

\* Jq::run
JqRun == {Done("None"), Done("Json"), Fail("Error")}

\* A payload of a Jq node with its content: Json holds one value (Scalar)
\* or an array of values (Array), Error holds the pieces of its message.
JqPayload(kind, shape, items) ==
    [kind |-> kind, shape |-> shape, items |-> items]

\* Result<Vec<Value>, Errors>.
JqOk(values) == [ok |-> TRUE, items |-> values]
JqErr(messages) == [ok |-> FALSE, items |-> messages]

\* The errors pushed while the inputs are bound: one for each Raw input
\* that is not valid UTF-8, in the order of the inputs.
bind_errors(inputs, i) ==
    LET bad == SelectSeq(inputs, LAMBDA k : k = "RawInvalid")
    IN  [j \in 1..Len(bad) |-> "not valid UTF-8"]

\* The errors pushed while the filter's items are collected, in order.
filter_errors(items) ==
    LET bad == SelectSeq(items, LAMBDA it : ~it.ok)
    IN  [j \in 1..Len(bad) |-> bad[j].v]

\* The values collected from the filter's items, Null for a failed one.
filter_values(items) ==
    [j \in 1..Len(items) |-> IF items[j].ok THEN items[j].v ELSE "null"]

\* Jq::exec of a node configured with `expected` inputs, on `inputs`, when
\* the filter yields `items`.
jq_exec(expected, inputs, items) ==
    IF Len(inputs) # expected
    THEN JqErr(<<"invalid number of inputs">>)
    ELSE LET errs == bind_errors(inputs, 1) \o filter_errors(items)
         IN  IF errs # <<>> THEN JqErr(errs) ELSE JqOk(filter_values(items))

\* Vec<String>::join(", ")
RECURSIVE join(_, _)
join(messages, i) ==
    IF i > Len(messages) THEN <<>>
    ELSE IF i = Len(messages) THEN <<messages[i]>>
    ELSE <<messages[i], ", ">> \o join(messages, i + 1)

\* impl From<Errors> for State
errors_into_state(messages) ==
    Fail(JqPayload("Error", "Message",
                   IF messages = <<>> THEN <<"unknown jq error">>
                   ELSE join(messages, 1)))

\* Jq::run, with one result passed on inside an array.
jq_run_wraps_single(expected, inputs, items) ==
    LET r == jq_exec(expected, inputs, items)
    IN  IF r.ok
        THEN (IF Len(r.items) = 0
              THEN Done(JqPayload("None", "Null", <<>>))
              ELSE Done(JqPayload("Json", "Array", r.items)))
        ELSE errors_into_state(r.items)

\* Jq::run with its results: what the node returns.
jq_run(expected, inputs, items) ==
    LET r == jq_exec(expected, inputs, items)
    IN  IF r.ok
        THEN (CASE Len(r.items) = 0 ->
                     Done(JqPayload("None", "Null", <<>>))
                [] Len(r.items) = 1 ->
                     Done(JqPayload("Json", "Scalar", r.items))
                [] OTHER ->
                     Done(JqPayload("Json", "Array", r.items)))
        ELSE errors_into_state(r.items)

\* Node::run of the node's type: the states it can return.
NodeRun(node, inputs, token) ==
    CASE node.type = "call" -> CallRun(node, inputs, token)
      [] node.type = "template" -> TemplateRun(node)
      [] node.type = "response" -> ResponseRun(inputs)
      [] node.type = "jq" -> JqRun

\* Node::resume of the node's type (the trait's default but for Call).
NodeResume(node) ==
    IF node.type = "call" THEN CallResume ELSE {Done("None")}

\* Node::resume when the host gives body for the response.
NodeResumeOn(node, body) ==
    IF node.type = "call" THEN CallResumeOn(body) ELSE {Done("None")}

\* ------------------------------------------------------------------------
\* Configurations explored
\* ------------------------------------------------------------------------

UserNode(name, type, inputs, outputs) ==
    [name |-> name, type |-> type, inputs |-> inputs, outputs |-> outputs,
     url |-> "ok", content_type |-> "application/json", status |-> <<>>]

\* Call c feeds Response r (which writes response_body).
CallThenResponse ==
    << UserNode("c", "call", <<"request_body">>, <<>>),
       [UserNode("r", "response", <<"c">>, <<"response_body">>)
          EXCEPT !.status = <<201>>] >>

\* As above, with a url that does not parse.
BadUrlCall ==
    << [UserNode("c", "call", <<"request_body">>, <<>>) EXCEPT !.url = "bad"],
       UserNode("r", "response", <<"c">>, <<"response_body">>) >>

\* One text/plain Template from request_headers to response_body.
TemplateOnly ==
    << [UserNode("t", "template", <<"request_headers">>, <<"response_body">>)
          EXCEPT !.content_type = "text/plain"] >>

\* b and c both consume a; b is declared before a, c after it.
FanOut ==
    << UserNode("b", "jq", <<"a">>, <<>>),
       UserNode("a", "template", <<"request_headers">>, <<>>),
       UserNode("c", "jq", <<"a">>, <<>>),
       UserNode("d", "jq", <<"a">>, <<"response_headers">>) >>

\* Two Calls dispatched in the same pass, joined by j.
FanIn ==
    << UserNode("j", "jq", <<"a", "b">>, <<"service_request_body">>),
       UserNode("a", "call", <<"request_headers">>, <<>>),
       UserNode("b", "call", <<"request_headers">>, <<>>) >>

\* a and b form a cycle, d hangs off it, e is independent.
Cycle ==
    << UserNode("a", "jq", <<"b">>, <<>>),
       UserNode("b", "call", <<"a">>, <<>>),
       UserNode("d", "template", <<"a", "request_headers">>, <<>>),
       UserNode("e", "call", <<>>, <<>>) >>

\* a lists itself as an input; d consumes a.
SelfLoop ==
    << UserNode("a", "call", <<"request_headers", "a">>, <<>>),
       UserNode("d", "jq", <<"a">>, <<>>) >>

\* a consumes and produces the implicit source request_headers.
SourceLoop ==
    << UserNode("a", "template", <<"request_headers">>, <<"request_headers">>),
       UserNode("d", "jq", <<"a">>, <<>>) >>

\* x consumes the implicit sink response_body; c calls out in the
\* response body phase.
SinkAsInput ==
    << UserNode("x", "jq", <<"response_body">>, <<>>),
       UserNode("c", "call", <<"service_response_body">>, <<>>) >>

\* The same two nodes declared the other way round.
SinkAsInputAfter ==
    << UserNode("c", "call", <<"service_response_body">>, <<>>),
       UserNode("x", "jq", <<"response_body">>, <<>>) >>

\* w rewrites the request body on its way to the service.
BodyRewrite ==
    << UserNode("w", "jq", <<"request_body">>, <<"service_request_body">>) >>

\* A chain declared back to front: one node runs per pass.
ReverseChain ==
    << UserNode("c", "response", <<"b">>, <<>>),
       UserNode("b", "jq", <<"a">>, <<>>),
       UserNode("a", "template", <<"request_body">>, <<>>) >>

\* a consumes a name nobody produces; the name a is declared twice.
MissingProvider ==
    << UserNode("a", "jq", <<"ghost">>, <<>>),
       UserNode("k", "call", <<"service_response_headers">>, <<"a">>),
       UserNode("k", "call", <<>>, <<>>) >>

\* Response r, with a status, rewrites the service's response body.
LateResponse ==
    << [UserNode("r", "response", <<"service_response_body">>, <<>>)
          EXCEPT !.status = <<201>>] >>

\* u and v both write the sink response_headers, u first; u lists its one
\* input twice.
TwoWriters ==
    << UserNode("u", "jq", <<"request_headers", "request_headers">>,
                <<"response_headers">>),
       UserNode("v", "template", <<"request_headers">>,
                <<"response_headers">>) >>

NodeLists ==
    {CallThenResponse, BadUrlCall, TemplateOnly, FanOut, FanIn, Cycle,
     SelfLoop, SourceLoop, SinkAsInput, SinkAsInputAfter, ReverseChain,
     MissingProvider, BodyRewrite, LateResponse, TwoWriters}

\* The input lists over two nodes p and q and the source request_headers.
InputLists ==
    {<<>>, <<"p">>, <<"q">>, <<"request_headers">>, <<"p", "q">>,
     <<"q", "request_headers">>, <<"request_headers", "p">>,
     <<"p", "request_headers", "q">>}

\* Every dependency graph over p, q and request_headers.
SmallNodeLists ==
    {<< UserNode("p", "call", ip, <<>>), UserNode("q", tq, iq, <<>>) >> :
        tq \in {"call", "jq"}, ip \in InputLists, iq \in InputLists}

UserConfigs ==
    {[nodes |-> ns, debug |-> d] : ns \in NodeLists, d \in BOOLEAN}
    \cup {[nodes |-> ns, debug |-> FALSE] : ns \in SmallNodeLists}

\* Node lists that use a reserved name, for the first node or for a later
\* one, and node lists with a type that is not registered.
RejectedNodeLists ==
    {<< UserNode(n, t, <<"request_headers">>, <<>>) >> :
        n \in RESERVED_NODE_NAMES, t \in {"jq", "frob"}}
    \cup {<< UserNode("p", t, <<>>, <<"response_body">>),
             UserNode(n, "response", <<"p">>, <<>>),
             UserNode(m, "jq", <<"p">>, <<>>) >> :
            t \in {"call", "frob"}, n \in RESERVED_NODE_NAMES,
            m \in {"q", "request_body", "response_body"}}
    \cup {<< UserNode("p", "frob", <<>>, <<>>) >>}

RejectedConfigs == {[nodes |-> ns, debug |-> FALSE] : ns \in RejectedNodeLists}

\* What get_plugin_configuration can give on_configure: nothing, bytes
\* that do not parse as a UserConfig, or a UserConfig.
PluginConfigurations ==
    {<<>>, << [parses |-> FALSE, value |-> [nodes |-> <<>>, debug |-> FALSE]] >>}
    \cup {<< [parses |-> TRUE, value |-> uc] >> :
             uc \in UserConfigs \cup RejectedConfigs}

\* ------------------------------------------------------------------------
\* Filter (filter.rs)
\* ------------------------------------------------------------------------

VARIABLES
    config,         \* the Rc<Config> of the root context
    nodes,          \* DataKitFilter.nodes: name -> node
    states,         \* DataKitFilter.data.states
    flags,          \* the eight do_* fields
    tracing,        \* Debug.trace
    debug_ct,       \* Debug.orig_response_body_content_type
    stage,          \* how far the host has driven the transaction
    pc,             \* "idle", or the position inside the running callback
    phase,          \* the callback that is running
    eof,            \* its eof argument
    idx,            \* run_nodes: position of the for loop in node_names
    any_ran,        \* run_nodes: any_ran
    ret,            \* run_nodes: ret
    next_token,     \* the token the host's next dispatch_http_call returns
    trace,          \* node invocations and host calls of the running callback
    runCount,       \* name -> number of run invocations so far
    resumeCount,    \* name -> number of resume invocations so far
    passes,         \* run_nodes: number of the pass of the loop
    passStart,      \* states when the current pass began
    cbStart,        \* states when the running callback began
    cbToken,        \* token_id of the running on_http_call_response
    readySince,     \* name -> length of trace when it became ready, or -1
    rendered,       \* name -> result of the rendering in its run, or ""
    operations,     \* Debug.operations: Vec<Operation>
    trace_header,   \* <<>>, or << the header debug_init read >>
    call_body,      \* <<>>, or << whether the last Call::resume got a body >>
    warn_headers_sent,  \* name -> the flag of that Response instance
    warnings        \* the nodes warn_headers_sent() logged a warning for

VARIABLES
    plugin_configuration,  \* what get_plugin_configuration returns
    root_config,    \* DataKitFilterRootContext.config: Option<Rc<Config>>
    configured,     \* <<>>, or << what on_configure returned and logged >>
    created         \* what the calls of create_http_context returned

\* The variables of the root context.
rootVars == <<plugin_configuration, root_config, configured, created>>

VARIABLES
    dg,             \* a DependencyGraph under a sequence of add calls
    added           \* the <<src, dst>> arguments of those calls, in order

VARIABLES
    header_map,     \* the object of a Payload::Json
    header_vec,     \* <<>>, or << to_pwm_headers of it >>
    header_json     \* <<>>, or << from_pwm_headers of that >>

VARIABLES
    body_bytes,     \* the bytes given to Payload::from_bytes
    body_ct,        \* the content_type given to it: Option<&str>
    body_payload    \* <<>>, or << what it returned >>

VARIABLES
    jq_expected,    \* the number of inputs in a Jq node's configuration
    jq_inputs,      \* the inputs given to Jq::run, by what exec sees in them
    jq_items,       \* the items the filter yields on them
    jq_state        \* <<>>, or << the State that run returned >>

VARIABLES
    data_added,     \* the providers given to the name "n", in order of add
    data_graph,     \* the DependencyGraph of a Data
    data_states,    \* its states
    data_token,     \* the Option<u32> its methods are called with
    data_answer     \* <<>>, or << what the three methods returned for "n" >>

graphVars == <<dg, added>>

dataVars == <<data_added, data_graph, data_states, data_token, data_answer>>

jqVars == <<jq_expected, jq_inputs, jq_items, jq_state>>

\* The variables of the functions added to those exercised on their own.
restVars == <<jqVars, dataVars>>

bytesVars == <<body_bytes, body_ct, body_payload>>

headerVars == <<header_map, header_vec, header_json>>

VARIABLES
    config_warn_headers_sent,  \* name -> the flag of that ResponseConfig
    other,          \* <<>>, or << the second HTTP context, not running >>
    current         \* the id of the HTTP context that is followed

\* The state of the shared Config that can change, and the second context.
sharedVars == <<config_warn_headers_sent, other, current>>

\* One HTTP context only, of a configuration without Response nodes.
NoShared ==
    /\ config_warn_headers_sent = EmptyMap
    /\ other = <<>>
    /\ current = 1

\* The variables of the functions exercised on their own.
unitVars == <<graphVars, headerVars, bytesVars, restVars>>

\* No graph is exercised on its own.
NoGraph ==
    /\ dg = EmptyGraph
    /\ added = <<>>

\* No header conversion is exercised on its own.
NoHeaders ==
    /\ header_map = EmptyMap
    /\ header_vec = <<>>
    /\ header_json = <<>>

\* No from_bytes is exercised on its own.
NoBytes ==
    /\ body_bytes = <<>>
    /\ body_ct = <<>>
    /\ body_payload = <<>>

\* No Jq::run is exercised on its own.
NoJq ==
    /\ jq_expected = 0
    /\ jq_inputs = <<>>
    /\ jq_items = <<>>
    /\ jq_state = <<>>

\* No Data is exercised on its own.
NoData ==
    /\ data_added = <<>>
    /\ data_graph = EmptyGraph
    /\ data_states = EmptyMap
    /\ data_token = <<>>
    /\ data_answer = <<>>

NoRest == NoJq /\ NoData

\* No function is exercised on its own.
NoUnit == NoGraph /\ NoHeaders /\ NoBytes /\ NoRest

\* The variables no callback of an HTTP context touches.
outerVars == <<rootVars, unitVars, sharedVars>>

vars == <<config, nodes, states, flags, tracing, debug_ct, stage, pc, phase,
          eof, idx, any_ran, ret, next_token, trace, runCount, resumeCount,
          passes, passStart, cbStart, cbToken, readySince, rendered,
          operations, trace_header, call_body, warn_headers_sent, warnings,
          outerVars>>

\* Config::build_nodes: a later node of the same name replaces an earlier one.
RECURSIVE build_nodes(_, _, _)
build_nodes(map, node_list, i) ==
    IF i > Len(node_list) THEN map
    ELSE build_nodes(DataSet(map, node_list[i].name, node_list[i]),
                     node_list, i + 1)

\* CreateFlags that skips nothing.
CreateFlags_all_set(g) ==
    [do_request_headers          |-> TRUE,
     do_request_body             |-> TRUE,
     do_service_request_headers  |-> TRUE,
     do_service_request_body     |-> TRUE,
     do_service_response_headers |-> TRUE,
     do_service_response_body    |-> TRUE,
     do_response_headers         |-> TRUE,
     do_response_body            |-> TRUE]

\* The flags computed by create_http_context.
CreateFlags(g) ==
    [do_request_headers          |-> has_dependents(g, "request_headers"),
     do_request_body             |-> has_dependents(g, "request_body"),
     do_service_request_headers  |-> has_providers(g, "service_request_headers"),
     do_service_request_body     |-> has_providers(g, "service_request_body"),
     do_service_response_headers |-> has_dependents(g, "service_response_headers"),
     do_service_response_body    |-> has_dependents(g, "service_response_body"),
     do_response_headers         |-> has_providers(g, "response_headers"),
     do_response_body            |-> has_providers(g, "response_body")]

\* An entry of trace: a node invocation (op "run" or "resume") with the
\* state it returned, the node's position in node_names (at) and the length
\* of trace at which the node became ready (since); or a host call.
Event(op, name, tag, payload, at, since) ==
    [op |-> op, name |-> name, tag |-> tag, payload |-> payload,
     at |-> at, since |-> since]

\* The first position of name in node_names.
DeclIdx(name) ==
    CHOOSE i \in 1..Len(config.node_names) :
        /\ config.node_names[i] = name
        /\ \A j \in 1..(i - 1) : config.node_names[j] # name

\* A node that has no recorded state and whose providers are all Done.
Ready(st, name) ==
    /\ name \notin DOMAIN st
    /\ \A i \in 1..Len(each_input(config.graph, name)) :
          LET input == each_input(config.graph, name)[i]
          IN  input \in DOMAIN st /\ st[input].tag = "Done"

\* readySince after a step that leaves st and a trace of length len.
ReadySince(old, st, len) ==
    [n \in DOMAIN nodes |->
        IF Ready(st, n) THEN (IF old[n] >= 0 THEN old[n] ELSE len) ELSE -1]

\* The loop visiting node_names back to front.
NodeAt_reversed(i) == config.node_names[Len(config.node_names) + 1 - i]

\* for name in self.config.get_node_names(): the name visited at step i.
NodeAt(i) == config.node_names[i]

Bump(counter, name) ==
    [counter EXCEPT ![name] = IF @ < MaxCount THEN @ + 1 ELSE @]

\* Config::new on the bytes of the plugin configuration: Ok(config) or
\* Err(message).
ConfigNewResult(bytes) ==
    IF ~bytes.parses
    THEN [ok |-> FALSE, config |-> <<>>,
          err |-> <<"failed parsing configuration", "">>]
    ELSE [ok |-> ConfigNew(bytes.value) # <<>>, config |-> ConfigNew(bytes.value),
          err |-> ConfigNewError(bytes.value)]

\* What on_configure returns and logs, and the config it leaves installed.
OnConfigureResult(pconf, installed) ==
    IF pconf = <<>>
    THEN [ret |-> FALSE, warn |-> <<"failed getting configuration", "">>,
          config |-> installed]
    ELSE LET r == ConfigNewResult(pconf[1])
         IN  IF r.ok THEN [ret |-> TRUE, warn |-> <<>>, config |-> r.config]
             ELSE [ret |-> FALSE, warn |-> r.err, config |-> installed]

\* What create_http_context returns: None without an installed config, or
\* a filter with its nodes, its flags and an empty Data.
NewHttpContext(installed) ==
    IF installed = <<>> THEN <<>>
    ELSE << [config |-> installed[1],
             nodes  |-> build_nodes(EmptyMap, installed[1].node_list, 1),
             flags  |-> CreateFlags(installed[1].graph),
             states |-> EmptyMap] >>

\* The flags of the ResponseConfigs of a configuration: ResponseFactory's
\* new_config, for nodes that do not set warn_headers_sent.
ConfigWarnHeadersSent(cfg) ==
    [n \in {cfg.node_list[i].name :
               i \in {k \in 1..Len(cfg.node_list) :
                         cfg.node_list[k].type = "response"}} |-> TRUE]

\* ResponseFactory::new_node for every Response node: the instance holds
\* a clone of the ResponseConfig, with a flag of its own that starts at the
\* value of the configuration's.
new_node_flags(shared) == [n \in DOMAIN shared |-> shared[n]]

\* The filter create_http_context returns for the installed config.
FreshFilter ==
    /\ nodes = build_nodes(EmptyMap, config.node_list, 1)
    /\ states = EmptyMap
    /\ flags = CreateFlags(config.graph)
    /\ tracing = FALSE
    /\ debug_ct = <<>>
    /\ stage = "Created"
    /\ pc = "idle"
    /\ phase = "None"
    /\ eof = FALSE
    /\ idx = 1
    /\ any_ran = FALSE
    /\ ret = "Continue"
    /\ next_token = 1
    /\ trace = <<>>
    /\ runCount = [n \in DOMAIN nodes |-> 0]
    /\ resumeCount = [n \in DOMAIN nodes |-> 0]
    /\ passes = 0
    /\ passStart = EmptyMap
    /\ cbStart = EmptyMap
    /\ cbToken = 0
    /\ readySince = [n \in DOMAIN nodes |-> -1]
    /\ rendered = [n \in DOMAIN nodes |-> ""]
    /\ operations = <<>>
    /\ trace_header = <<>>
    /\ call_body = <<>>
    /\ warn_headers_sent = new_node_flags(config_warn_headers_sent)
    /\ warnings = <<>>

\* on_configure succeeded, then create_http_context returned the filter
\* whose transaction is followed.
Init ==
    /\ \E uc \in UserConfigs :
          /\ ConfigNew(uc) # <<>>
          /\ config = ConfigNew(uc)[1]
          /\ plugin_configuration = << [parses |-> TRUE, value |-> uc] >>
    /\ root_config = <<config>>
    /\ configured = << [ret |-> TRUE, warn |-> <<>>] >>
    /\ created = << NewHttpContext(root_config) >>
    /\ NoUnit
    /\ config_warn_headers_sent = ConfigWarnHeadersSent(config)
    /\ other = <<>>
    /\ current = 1
    /\ FreshFilter

\* Operation::Run(RunOperation) and Operation::Set(SetOperation); value is
\* the payload the operation's value renders, "None" for no value.
RunOp(action, name, type) ==
    [kind |-> "Run", action |-> action, name |-> name, type |-> type,
     status |-> "", value |-> "None"]

SetOp(name, state, data_type) ==
    [kind |-> "Set", action |-> "", name |-> name, type |-> data_type,
     status |-> state.tag, value |-> state.payload]

\* payload_to_op_info: the data types it can give; to_json fails on an
\* Error payload and on Raw bytes that are not UTF-8.
payload_to_op_info(p, default_type) ==
    IF p = "None" THEN {"none"}
    ELSE IF p = "Json" THEN {"application/json"}
    ELSE IF p = "Raw" THEN {default_type, "fail"}
    ELSE {"fail"}

\* The data types Debug::set_data can record for a state.
DataTypes(state) ==
    IF state.tag = "Done" THEN payload_to_op_info(state.payload, "raw")
    ELSE IF state.tag = "Waiting" THEN {"waiting"}
    ELSE payload_to_op_info(state.payload, "fail")

\* Debug::set_data on operations ops, tr being Debug.trace.
debug_set_data(ops, tr, name, state, data_type) ==
    IF tr THEN Append(ops, SetOp(name, state, data_type)) ELSE ops

\* Debug::run that records the state before the invocation.
debug_run_state_first(ops, tr, name, type, state, action, data_type) ==
    IF tr
    THEN Append(debug_set_data(ops, tr, name, state, data_type),
                RunOp(action, name, type))
    ELSE ops

\* Debug::run: the invocation, then set_data of the state it returned.
debug_run(ops, tr, name, type, state, action, data_type) ==
    IF tr
    THEN debug_set_data(Append(ops, RunOp(action, name, type)), tr, name,
                        state, data_type)
    ELSE ops

\* Debug::get_trace before serialization: the TraceAction of each
\* operation (type "" and value "None" are skipped when serializing).
get_trace(ops) ==
    [i \in 1..Len(ops) |->
        IF ops[i].kind = "Run"
        THEN [action |-> ops[i].action, name |-> ops[i].name,
              type |-> ops[i].type, value |-> "None"]
        ELSE IF ops[i].status = "Done"
        THEN [action |-> "value", name |-> ops[i].name,
              type |-> ops[i].type, value |-> ops[i].value]
        ELSE IF ops[i].status = "Waiting"
        THEN [action |-> "wait", name |-> ops[i].name,
              type |-> "", value |-> "None"]
        ELSE [action |-> "fail", name |-> ops[i].name,
              type |-> "", value |-> ops[i].value]]

\* DataKitFilter::set_data: Debug::set_data, then Data::set.
set_data(tr, name, state) ==
    /\ states' = DataSet(states, name, state)
    /\ \E dt \in DataTypes(state) :
          operations' = debug_set_data(operations, tr, name, state, dt)

\* No state is recorded.
NoSetData == states' = states /\ operations' = operations

\* A callback begins: what every callback's entry sets.
Enter(ph, e, tok) ==
    /\ phase' = ph
    /\ eof' = e
    /\ cbToken' = tok
    /\ cbStart' = states

\* CallRunNodes with ret left as the previous invocation set it.
CallRunNodes_keeps_ret ==
    /\ pc' = "run_nodes"
    /\ idx' = 1
    /\ any_ran' = FALSE
    /\ ret' = ret
    /\ passes' = 1
    /\ passStart' = states'
    /\ readySince' = ReadySince([n \in DOMAIN nodes |-> -1], states', 0)

\* The call of run_nodes: the state at the top of its loop.
CallRunNodes ==
    /\ pc' = "run_nodes"
    /\ idx' = 1
    /\ any_ran' = FALSE
    /\ ret' = "Continue"
    /\ passes' = 1
    /\ passStart' = states'
    /\ readySince' = ReadySince([n \in DOMAIN nodes |-> -1], states', 0)

\* Input.phase: the phase of the callback that drives the scheduler.
InputPhase == phase

\* Response::run in the response body phase with the configuration's
\* flag in place of the instance's.
run_flags_of_config(shared, own, name) ==
    [loaded |-> shared[name],
     shared |-> [shared EXCEPT ![name] = FALSE],
     own    |-> own]

\* Response::run in the response body phase: the flag it loads, and the
\* flags after the store of warn_headers_sent().  shared holds the flags
\* of the configuration, own those of this filter's node instances.
run_flags(shared, own, name) ==
    [loaded |-> own[name],
     shared |-> shared,
     own    |-> [own EXCEPT ![name] = FALSE]]

\* What the run of a node does to the flags, and whether it logs the
\* warning (a Response with a status or with headers, in the response body
\* phase, whose flag is set and whose body can be serialised).
WarnHeadersSent(node, inputs, ph, shared, own) ==
    IF node.type = "response" /\ Slot(inputs, 1) # "Error"
          /\ ph = "HttpResponseBody"
          /\ run_flags(shared, own, node.name).loaded
    THEN [shared |-> run_flags(shared, own, node.name).shared,
          own    |-> run_flags(shared, own, node.name).own,
          warn   |-> node.status # <<>> \/ Slot(inputs, 2) # "None"]
    ELSE [shared |-> shared, own |-> own, warn |-> FALSE]

\* run_nodes, loop body: node_names[idx] passes the gate and is run.
RunNode ==
    /\ pc = "run_nodes"
    /\ idx <= Len(config.node_names)
    /\ LET name == NodeAt(idx)
           inputs == get_inputs_for(states, config.graph, name, <<>>)
           token == IF next_token <= MaxToken THEN <<next_token>> ELSE <<>>
       IN  /\ inputs # <<>>
           /\ \E state \in NodeRun(nodes[name], inputs[1], token) :
                 /\ any_ran' = TRUE
                 /\ ret' = IF state.tag = "Waiting" THEN "Pause" ELSE ret
                 /\ next_token' = IF state.tag = "Waiting"
                                  THEN next_token + 1 ELSE next_token
                 /\ states' = DataSet(states, name, state)
                 /\ \E dt \in DataTypes(state) :
                       operations' = debug_run(operations, tracing, name,
                                               nodes[name].type, state,
                                               "run", dt)
                 /\ trace' = Append(trace \o NodeCalls(nodes[name], inputs[1],
                                                        InputPhase),
                                Event("run", name, state.tag, state.payload,
                                      DeclIdx(name), readySince[name]))
                 /\ runCount' = Bump(runCount, name)
                 /\ readySince' = ReadySince(readySince, states',
                                             Len(trace'))
                 /\ \E r \in RenderOf(nodes[name], state) :
                       rendered' = [rendered EXCEPT ![name] = r]
           /\ LET w == WarnHeadersSent(nodes[name], inputs[1], InputPhase,
                                       config_warn_headers_sent,
                                       warn_headers_sent)
              IN  /\ config_warn_headers_sent' = w.shared
                  /\ warn_headers_sent' = w.own
                  /\ warnings' = IF w.warn THEN Append(warnings, name)
                                 ELSE warnings
    /\ idx' = idx + 1
    /\ UNCHANGED <<rootVars, unitVars, other, current, trace_header, call_body, config, nodes, flags, tracing, debug_ct, stage,
                   pc, phase, eof, resumeCount, passes, passStart, cbStart,
                   cbToken>>

\* run_nodes, loop body: node_names[idx] does not pass the gate.
SkipNode ==
    /\ pc = "run_nodes"
    /\ idx <= Len(config.node_names)
    /\ get_inputs_for(states, config.graph, NodeAt(idx), <<>>) = <<>>
    /\ idx' = idx + 1
    /\ UNCHANGED <<outerVars, warn_headers_sent, warnings, trace_header, call_body, operations, rendered, config, nodes, states, flags, tracing, debug_ct, stage, pc,
                   phase, eof, any_ran, ret, next_token, trace, runCount,
                   resumeCount, passes, passStart, cbStart, cbToken,
                   readySince>>

\* NextPass that does not reset any_ran.
NextPass_keeps_any_ran ==
    /\ pc = "run_nodes"
    /\ idx > Len(config.node_names)
    /\ any_ran
    /\ idx' = 1
    /\ passes' = passes + 1
    /\ passStart' = states
    /\ UNCHANGED <<outerVars, warn_headers_sent, warnings, trace_header, call_body, operations, rendered, config, nodes, states, flags, tracing, debug_ct, stage, pc,
                   phase, eof, any_ran, ret, next_token, trace, runCount,
                   resumeCount, cbStart, cbToken, readySince>>

\* run_nodes, end of a pass in which a node ran: the loop goes round again.
NextPass ==
    /\ pc = "run_nodes"
    /\ idx > Len(config.node_names)
    /\ any_ran
    /\ idx' = 1
    /\ any_ran' = FALSE
    /\ passes' = passes + 1
    /\ passStart' = states
    /\ UNCHANGED <<outerVars, warn_headers_sent, warnings, trace_header, call_body, operations, rendered, config, nodes, states, flags, tracing, debug_ct, stage, pc,
                   phase, eof, ret, next_token, trace, runCount, resumeCount,
                   cbStart, cbToken,
                   readySince>>

\* RunNodesReturn that breaks after any pass.
RunNodesReturn_any_pass ==
    /\ pc = "run_nodes"
    /\ idx > Len(config.node_names)
    /\ pc' = "returned"
    /\ UNCHANGED <<outerVars, warn_headers_sent, warnings, trace_header, call_body, operations, rendered, config, nodes, states, flags, tracing, debug_ct, stage,
                   phase, eof, idx, any_ran, ret, next_token, trace, runCount,
                   resumeCount, passes, passStart, cbStart, cbToken,
                   readySince>>

\* run_nodes, end of a pass in which no node ran: break and return ret.
RunNodesReturn ==
    /\ pc = "run_nodes"
    /\ idx > Len(config.node_names)
    /\ ~any_ran
    /\ pc' = "returned"
    /\ UNCHANGED <<outerVars, warn_headers_sent, warnings, trace_header, call_body, operations, rendered, config, nodes, states, flags, tracing, debug_ct, stage,
                   phase, eof, idx, any_ran, ret, next_token, trace, runCount,
                   resumeCount, passes, passStart, cbStart, cbToken,
                   readySince>>

\* Payloads a body callback can seed: from_bytes of the host's bytes under
\* the host's Content-Type header.
BodyPayloads == UNION {from_bytes(ct) : ct \in ContentTypes}

\* The values get_http_request_header("X-DataKit-Debug-Trace") gives:
\* Option<String>.
TraceHeaders == {<<>>, <<"off">>, <<"false">>, <<"0">>, <<"1">>}

\* header_to_bool that takes "0" for a request to trace.
header_to_bool_zero_on(header_value) ==
    header_value # <<>> /\ header_value[1] \notin {"off", "false"}

header_to_bool(header_value) ==
    header_value # <<>> /\ header_value[1] \notin {"off", "false", "0"}

\* on_http_request_headers up to its call of run_nodes; debug_init, which
\* reads the request's X-DataKit-Debug-Trace, is called when the
\* configuration has debug.
OnHttpRequestHeaders ==
    /\ pc = "idle"
    /\ stage = "Created"
    /\ \E h \in TraceHeaders :
          LET on == config.debug /\ header_to_bool(h)
          IN  /\ trace_header' = IF config.debug THEN <<h>> ELSE <<>>
              /\ tracing' = (tracing \/ on)
              /\ flags' = IF on THEN [flags EXCEPT !.do_response_body = TRUE]
                          ELSE flags
    /\ IF flags.do_request_headers
       THEN set_data(tracing', "request_headers", Done("Json"))
       ELSE NoSetData
    /\ stage' = "RequestHeaders"
    /\ trace' = <<>>
    /\ Enter("HttpRequestHeaders", FALSE, 0)
    /\ CallRunNodes
    /\ UNCHANGED <<call_body, outerVars, warn_headers_sent, warnings, rendered, config, nodes, debug_ct, next_token,
                   runCount, resumeCount>>

\* on_http_request_body up to its call of run_nodes.
OnHttpRequestBody ==
    /\ pc = "idle"
    /\ stage \in {"RequestHeaders", "RequestBody"}
    /\ \E e \in BOOLEAN :
          /\ Enter("HttpRequestBody", e, 0)
          /\ stage' = IF e THEN "RequestBodyEof" ELSE "RequestBody"
          /\ IF e /\ flags.do_request_body
             THEN \/ NoSetData           \* get_http_request_body gave None
                  \/ \E p \in BodyPayloads :
                        set_data(tracing, "request_body", Done(p))
             ELSE NoSetData
    /\ trace' = <<>>
    /\ CallRunNodes
    /\ UNCHANGED <<outerVars, warn_headers_sent, warnings, trace_header, call_body, rendered, config, nodes, flags, tracing, debug_ct, next_token,
                   runCount, resumeCount>>

\* on_http_response_headers up to its call of run_nodes.
OnHttpResponseHeaders ==
    /\ pc = "idle"
    /\ stage \in {"RequestHeaders", "RequestBody", "RequestBodyEof"}
    /\ IF flags.do_service_response_headers
       THEN set_data(tracing, "service_response_headers", Done("Json"))
       ELSE NoSetData
    /\ stage' = "ResponseHeaders"
    /\ trace' = <<>>
    /\ Enter("HttpResponseHeaders", FALSE, 0)
    /\ CallRunNodes
    /\ UNCHANGED <<outerVars, warn_headers_sent, warnings, trace_header, call_body, rendered, config, nodes, flags, tracing, debug_ct, next_token,
                   runCount, resumeCount>>

\* on_http_response_body with eof = false: the whole callback.
OnHttpResponseBodyChunk ==
    /\ pc = "idle"
    /\ stage \in {"ResponseHeaders", "ResponseBody"}
    /\ stage' = "ResponseBody"
    /\ trace' = <<>>
    /\ ret' = "Pause"
    /\ Enter("HttpResponseBody", FALSE, 0)
    /\ UNCHANGED <<outerVars, warn_headers_sent, warnings, trace_header, call_body, operations, rendered, config, nodes, states, flags, tracing, debug_ct, pc, idx,
                   any_ran, next_token, runCount, resumeCount, passes,
                   passStart, readySince>>

\* on_http_response_body with eof = true, up to its call of run_nodes.
OnHttpResponseBody ==
    /\ pc = "idle"
    /\ stage \in {"ResponseHeaders", "ResponseBody"}
    /\ IF flags.do_service_response_body
       THEN \/ NoSetData             \* get_http_response_body gave None
            \/ \E p \in BodyPayloads :
                  set_data(tracing, "service_response_body", Done(p))
       ELSE NoSetData
    /\ stage' = "ResponseBodyEof"
    /\ trace' = <<>>
    /\ Enter("HttpResponseBody", TRUE, 0)
    /\ CallRunNodes
    /\ UNCHANGED <<outerVars, warn_headers_sent, warnings, trace_header, call_body, rendered, config, nodes, flags, tracing, debug_ct, next_token,
                   runCount, resumeCount>>

\* The positions in node_names whose node passes the gate with the token.
Resumable(st, token_id) ==
    {i \in 1..Len(config.node_names) :
        get_inputs_for(st, config.graph, NodeAt(i), <<token_id>>)
            # <<>>}

Least(S) == CHOOSE i \in S : \A j \in S : i <= j

\* on_http_call_response up to its call of run_nodes: the loop that resumes
\* the first node passing the gate with the token, then breaks.
OnHttpCallResponse ==
    /\ pc = "idle"
    /\ stage # "Created"
    /\ \E token_id \in Tokens :
          /\ Enter("HttpCallResponse", FALSE, token_id)
          /\ IF Resumable(states, token_id) = {}
             THEN /\ NoSetData
                  /\ trace' = <<>>
                  /\ resumeCount' = resumeCount
                  /\ call_body' = <<>>
             ELSE LET name == NodeAt(Least(Resumable(states, token_id)))
                  IN  \E body \in CallBodies :
                      \E state \in NodeResumeOn(nodes[name], body) :
                         /\ call_body' = IF nodes[name].type = "call"
                                         THEN <<body>> ELSE <<>>
                         /\ states' = DataSet(states, name, state)
                         /\ \E dt \in DataTypes(state) :
                               operations' =
                                  debug_run(operations, tracing, name,
                                            nodes[name].type, state,
                                            "resume", dt)
                         /\ trace' = << Event("resume", name, state.tag,
                                              state.payload, 0, 0) >>
                         /\ resumeCount' = Bump(resumeCount, name)
    /\ CallRunNodes
    /\ UNCHANGED <<outerVars, warn_headers_sent, warnings, trace_header, rendered, config, nodes, flags, tracing, debug_ct, stage, next_token,
                   runCount>>

HostCall(op, payload) == Event(op, "", "", payload, 0, 0)

\* The host calls that drain a headers sink, if it is connected and ready.
DrainHeaders(do, sink, op) ==
    IF do /\ first_input_for(states, config.graph, sink, <<>>) # "None"
    THEN << HostCall(op, first_input_for(states, config.graph, sink, <<>>)) >>
    ELSE <<>>

\* The host calls that drain service_request_body: nothing is written when
\* to_bytes fails (an Error payload).
DrainRequestBody ==
    LET p == first_input_for(states, config.graph, "service_request_body", <<>>)
    IN  IF flags.do_service_request_body /\ p # "None" /\ p # "Error"
        THEN << HostCall("set_http_request_body", p) >>
        ELSE <<>>

\* FinishRequestHeaders that records request_headers after run_nodes.
FinishRequestHeaders_seeds_after ==
    /\ pc = "returned"
    /\ phase = "HttpRequestHeaders"
    /\ states' = DataSet(states, "request_headers", Done("Json"))
    /\ pc' = "idle"
    /\ UNCHANGED <<outerVars, warn_headers_sent, warnings, trace_header, call_body, operations, rendered, config, nodes, flags, tracing, debug_ct, stage,
                   phase, eof, idx, any_ran, ret, next_token, trace, runCount,
                   resumeCount, passes, passStart, cbStart, cbToken,
                   readySince>>

\* on_http_request_headers after run_nodes: its action is returned.
FinishRequestHeaders ==
    /\ pc = "returned"
    /\ phase = "HttpRequestHeaders"
    /\ pc' = "idle"
    /\ UNCHANGED <<outerVars, warn_headers_sent, warnings, trace_header, call_body, operations, rendered, config, nodes, states, flags, tracing, debug_ct, stage,
                   phase, eof, idx, any_ran, ret, next_token, trace, runCount,
                   resumeCount, passes, passStart, cbStart, cbToken,
                   readySince>>

\* on_http_request_body after run_nodes: the request sinks are drained.
FinishRequestBody ==
    /\ pc = "returned"
    /\ phase = "HttpRequestBody"
    /\ trace' = trace
                \o DrainHeaders(flags.do_service_request_headers,
                                "service_request_headers",
                                "set_http_request_headers")
                \o DrainRequestBody
    /\ pc' = "idle"
    /\ UNCHANGED <<outerVars, warn_headers_sent, warnings, trace_header, call_body, operations, rendered, config, nodes, states, flags, tracing, debug_ct, stage,
                   phase, eof, idx, any_ran, ret, next_token, runCount,
                   resumeCount, passes, passStart, cbStart, cbToken,
                   readySince>>

\* on_http_response_headers after run_nodes: the response sinks are drained,
\* then debug_done_headers saves the response's Content-Type when tracing.
FinishResponseHeaders ==
    /\ pc = "returned"
    /\ phase = "HttpResponseHeaders"
    /\ LET body == first_input_for(states, config.graph, "response_body", <<>>)
           set_body == flags.do_response_body /\ body # "None"
       IN  /\ \E ct \in (IF set_body THEN {content_type(body)} ELSE ContentTypes) :
                 debug_ct' = IF config.debug /\ tracing THEN ct ELSE debug_ct
           /\ trace' = trace
                \o DrainHeaders(flags.do_response_headers, "response_headers",
                                "set_http_response_headers")
                \o (IF set_body
                    THEN << HostCall("set_response_body_headers", body) >>
                    ELSE <<>>)
                \o (IF config.debug /\ tracing
                    THEN << HostCall("set_trace_headers", "None") >>
                    ELSE <<>>)
    /\ pc' = "idle"
    /\ UNCHANGED <<outerVars, warn_headers_sent, warnings, trace_header, call_body, operations, rendered, config, nodes, states, flags, tracing, stage, phase, eof,
                   idx, any_ran, ret, next_token, runCount, resumeCount,
                   passes, passStart, cbStart, cbToken,
                   readySince>>

\* FinishResponseBody that records response_body without debug too.
FinishResponseBody_records_without_debug ==
    /\ pc = "returned"
    /\ phase = "HttpResponseBody"
    /\ LET body == first_input_for(states, config.graph, "response_body", <<>>)
           done == IF config.debug /\ tracing
                   THEN << HostCall("set_http_response_body", "Trace") >>
                   ELSE <<>>
       IN  IF flags.do_response_body /\ body # "None"
           THEN /\ trace' = trace
                      \o << HostCall("set_http_response_body",
                                     IF body = "Error" THEN "Empty" ELSE body) >>
                      \o done
                /\ NoSetData
           ELSE IF flags.do_response_body
           THEN /\ trace' = trace \o done
                /\ \/ NoSetData          \* get_http_response_body gave None
                   \/ \E p \in from_bytes(debug_ct) :
                         set_data(tracing, "response_body", Done(p))
           ELSE /\ trace' = trace \o done
                /\ NoSetData
    /\ pc' = "idle"
    /\ UNCHANGED <<outerVars, warn_headers_sent, warnings, trace_header, call_body, rendered, config, nodes, flags, tracing, debug_ct, stage, phase, eof,
                   idx, any_ran, ret, next_token, runCount, resumeCount,
                   passes, passStart, cbStart, cbToken,
                   readySince>>

\* on_http_response_body (eof) after run_nodes: response_body is drained (an
\* Error payload, whose to_bytes fails, as an empty body); a filter with
\* debug that finds nothing to drain records the host's body as the state
\* of response_body; debug_done writes the trace when tracing.
FinishResponseBody ==
    /\ pc = "returned"
    /\ phase = "HttpResponseBody"
    /\ LET body == first_input_for(states, config.graph, "response_body", <<>>)
           done == IF config.debug /\ tracing
                   THEN << HostCall("set_http_response_body", "Trace") >>
                   ELSE <<>>
       IN  IF flags.do_response_body /\ body # "None"
           THEN /\ trace' = trace
                      \o << HostCall("set_http_response_body",
                                     IF body = "Error" THEN "Empty" ELSE body) >>
                      \o done
                /\ NoSetData
           ELSE IF flags.do_response_body /\ config.debug
           THEN /\ trace' = trace \o done
                /\ \/ NoSetData          \* get_http_response_body gave None
                   \/ \E p \in from_bytes(debug_ct) :
                         set_data(tracing, "response_body", Done(p))
           ELSE /\ trace' = trace \o done
                /\ NoSetData
    /\ pc' = "idle"
    /\ UNCHANGED <<outerVars, warn_headers_sent, warnings, trace_header, call_body, rendered, config, nodes, flags, tracing, debug_ct, stage, phase, eof,
                   idx, any_ran, ret, next_token, runCount, resumeCount,
                   passes, passStart, cbStart, cbToken,
                   readySince>>

\* on_http_call_response after run_nodes: resume_http_request.
FinishCallResponse ==
    /\ pc = "returned"
    /\ phase = "HttpCallResponse"
    /\ trace' = Append(trace, HostCall("resume_http_request", "None"))
    /\ pc' = "idle"
    /\ UNCHANGED <<outerVars, warn_headers_sent, warnings, trace_header, call_body, operations, rendered, config, nodes, states, flags, tracing, debug_ct, stage,
                   phase, eof, idx, any_ran, ret, next_token, runCount,
                   resumeCount, passes, passStart, cbStart, cbToken,
                   readySince>>

Next ==
    \/ OnHttpRequestHeaders
    \/ OnHttpRequestBody
    \/ OnHttpResponseHeaders
    \/ OnHttpResponseBodyChunk
    \/ OnHttpResponseBody
    \/ OnHttpCallResponse
    \/ RunNode
    \/ SkipNode
    \/ NextPass
    \/ RunNodesReturn
    \/ FinishRequestHeaders
    \/ FinishRequestBody
    \/ FinishResponseHeaders
    \/ FinishResponseBody
    \/ FinishCallResponse

Spec == Init /\ [][Next]_vars

\* ------------------------------------------------------------------------
\* Two HTTP contexts of one root context (filter.rs), callbacks interleaved
\* ------------------------------------------------------------------------

\* What a DataKitFilter owns: everything but the Rc<Config> it shares.
Snapshot ==
    [nodes |-> nodes, states |-> states, flags |-> flags,
     tracing |-> tracing, debug_ct |-> debug_ct, stage |-> stage, pc |-> pc,
     phase |-> phase, eof |-> eof, idx |-> idx, any_ran |-> any_ran,
     ret |-> ret, next_token |-> next_token, trace |-> trace,
     runCount |-> runCount, resumeCount |-> resumeCount, passes |-> passes,
     passStart |-> passStart, cbStart |-> cbStart, cbToken |-> cbToken,
     readySince |-> readySince, rendered |-> rendered,
     operations |-> operations, trace_header |-> trace_header,
     call_body |-> call_body,
     warn_headers_sent |-> warn_headers_sent, warnings |-> warnings]

\* The configurations the two contexts are created from.
SharedConfigs == {[nodes |-> LateResponse, debug |-> d] : d \in BOOLEAN}

\* on_configure succeeded, then create_http_context was called twice.
InitTwo ==
    /\ \E uc \in SharedConfigs :
          /\ ConfigNew(uc) # <<>>
          /\ config = ConfigNew(uc)[1]
          /\ plugin_configuration = << [parses |-> TRUE, value |-> uc] >>
    /\ root_config = <<config>>
    /\ configured = << [ret |-> TRUE, warn |-> <<>>] >>
    /\ created = << NewHttpContext(root_config), NewHttpContext(root_config) >>
    /\ NoUnit
    /\ config_warn_headers_sent = ConfigWarnHeadersSent(config)
    /\ FreshFilter
    /\ other = << Snapshot >>
    /\ current = 1

\* The host delivers its next callback to the other context; callbacks
\* run to completion, so this happens between callbacks only.
SwitchContext ==
    /\ pc = "idle"
    /\ other # <<>>
    /\ other' = << Snapshot >>
    /\ current' = 3 - current
    /\ nodes' = other[1].nodes
    /\ states' = other[1].states
    /\ flags' = other[1].flags
    /\ tracing' = other[1].tracing
    /\ debug_ct' = other[1].debug_ct
    /\ stage' = other[1].stage
    /\ pc' = other[1].pc
    /\ phase' = other[1].phase
    /\ eof' = other[1].eof
    /\ idx' = other[1].idx
    /\ any_ran' = other[1].any_ran
    /\ ret' = other[1].ret
    /\ next_token' = other[1].next_token
    /\ trace' = other[1].trace
    /\ runCount' = other[1].runCount
    /\ resumeCount' = other[1].resumeCount
    /\ passes' = other[1].passes
    /\ passStart' = other[1].passStart
    /\ cbStart' = other[1].cbStart
    /\ cbToken' = other[1].cbToken
    /\ readySince' = other[1].readySince
    /\ rendered' = other[1].rendered
    /\ operations' = other[1].operations
    /\ trace_header' = other[1].trace_header
    /\ call_body' = other[1].call_body
    /\ warn_headers_sent' = other[1].warn_headers_sent
    /\ warnings' = other[1].warnings
    /\ UNCHANGED <<config, config_warn_headers_sent, rootVars, unitVars>>

NextTwo == Next \/ SwitchContext

SpecTwo == InitTwo /\ [][NextTwo]_vars

\* ------------------------------------------------------------------------
\* Root context (filter.rs): on_configure and create_http_context
\* ------------------------------------------------------------------------

\* The variables of the HTTP context.
filterVars ==
    <<config, nodes, states, flags, tracing, debug_ct, stage, pc, phase,
      eof, idx, any_ran, ret, next_token, trace, runCount, resumeCount,
      passes, passStart, cbStart, cbToken, readySince, rendered,
      operations, trace_header, call_body, warn_headers_sent, warnings>>

\* No HTTP context is followed.
NoFilter ==
    /\ config = [node_list |-> <<>>, node_names |-> <<>>,
                 graph |-> EmptyGraph, node_inputs |-> <<>>,
                 debug |-> FALSE]
    /\ nodes = EmptyMap
    /\ states = EmptyMap
    /\ flags = CreateFlags(EmptyGraph)
    /\ tracing = FALSE
    /\ debug_ct = <<>>
    /\ stage = "Created"
    /\ pc = "none"
    /\ phase = "None"
    /\ eof = FALSE
    /\ idx = 1
    /\ any_ran = FALSE
    /\ ret = "Continue"
    /\ next_token = 1
    /\ trace = <<>>
    /\ runCount = EmptyMap
    /\ resumeCount = EmptyMap
    /\ passes = 0
    /\ passStart = EmptyMap
    /\ cbStart = EmptyMap
    /\ cbToken = 0
    /\ readySince = EmptyMap
    /\ rendered = EmptyMap
    /\ operations = <<>>
    /\ trace_header = <<>>
    /\ call_body = <<>>
    /\ warn_headers_sent = EmptyMap
    /\ warnings = <<>>

\* The root context as constructed in main: no config installed.
InitRoot ==
    /\ plugin_configuration \in PluginConfigurations
    /\ root_config = <<>>
    /\ configured = <<>>
    /\ created = <<>>
    /\ NoFilter
    /\ NoUnit
    /\ NoShared

\* on_configure, which the host calls once on a root context.
OnConfigure ==
    /\ configured = <<>>
    /\ LET r == OnConfigureResult(plugin_configuration, root_config)
       IN  /\ root_config' = r.config
           /\ configured' = << [ret |-> r.ret, warn |-> r.warn] >>
    /\ UNCHANGED <<plugin_configuration, created, filterVars, unitVars,
                   sharedVars>>

\* create_http_context, for each stream the host opens.
CreateHttpContext ==
    /\ Len(created) < MaxContexts
    /\ created' = Append(created, NewHttpContext(root_config))
    /\ UNCHANGED <<plugin_configuration, root_config, configured, filterVars,
                   unitVars, sharedVars>>

NextRoot == OnConfigure \/ CreateHttpContext

SpecRoot == InitRoot /\ [][NextRoot]_vars

\* ------------------------------------------------------------------------
\* DependencyGraph (dependency_graph.rs) under arbitrary add calls
\* ------------------------------------------------------------------------

\* No root context is followed.
NoRoot ==
    /\ plugin_configuration = <<>>
    /\ root_config = <<>>
    /\ configured = <<>>
    /\ created = <<>>

\* The names the add calls draw their arguments from.
GraphArgs == {"a", "b", "c"}

\* DependencyGraph::default().
InitGraph ==
    /\ dg = EmptyGraph
    /\ added = <<>>
    /\ NoRoot
    /\ NoFilter
    /\ NoShared
    /\ NoRest
    /\ NoHeaders
    /\ NoBytes

\* graph.add(src, dst), with any arguments (src = dst included).
GraphAdd ==
    /\ Len(added) < MaxAdds
    /\ \E src \in GraphArgs, dst \in GraphArgs :
          /\ dg' = add(dg, src, dst)
          /\ added' = Append(added, <<src, dst>>)
    /\ UNCHANGED <<rootVars, filterVars, sharedVars, headerVars, bytesVars,
                 restVars>>

NextGraph == GraphAdd

SpecGraph == InitGraph /\ [][NextGraph]_vars

\* ------------------------------------------------------------------------
\* Header conversions (data.rs): to_pwm_headers, then from_pwm_headers
\* ------------------------------------------------------------------------

\* The strings header values are drawn from.
HeaderStrings == {"x", "y"}

\* The elements of an array: strings, and a number for everything else.
HeaderElements == {JString(x) : x \in HeaderStrings} \cup {JNumber}

\* The values of an object's entries: a string, an array of at most
\* MaxValues elements, or a number.
HeaderValues ==
    {JString(x) : x \in HeaderStrings}
       \cup {JArray(xs) : xs \in UNION {[1..n -> HeaderElements] :
                                           n \in 0..MaxValues}}
       \cup {JNumber}

\* The JSON objects over the keys of KeyOrder.
HeaderObjects ==
    UNION {[K -> HeaderValues] :
              K \in SUBSET {KeyOrder[i] : i \in 1..Len(KeyOrder)}}

\* A Payload::Json holding any such object; nothing converted yet.
InitHeaders ==
    /\ header_map \in HeaderObjects
    /\ header_vec = <<>>
    /\ header_json = <<>>
    /\ NoRoot
    /\ NoFilter
    /\ NoShared
    /\ NoRest
    /\ NoGraph
    /\ NoBytes

\* data::to_pwm_headers(Some(&payload)).
ToPwmHeaders ==
    /\ header_vec = <<>>
    /\ header_vec' = << to_pwm_headers(header_map, 1) >>
    /\ UNCHANGED <<header_map, header_json, rootVars, filterVars, graphVars,
                   bytesVars, sharedVars,
                   restVars>>

\* data::from_pwm_headers on the pairs, as the host hands them back.
FromPwmHeaders ==
    /\ header_vec # <<>>
    /\ header_json = <<>>
    /\ header_json' = << from_pwm_headers(header_vec[1], 1, EmptyMap) >>
    /\ UNCHANGED <<header_map, header_vec, rootVars, filterVars, graphVars,
                   bytesVars, sharedVars,
                   restVars>>

NextHeaders == ToPwmHeaders \/ FromPwmHeaders

SpecHeaders == InitHeaders /\ [][NextHeaders]_vars

\* ------------------------------------------------------------------------
\* Payload::from_bytes (data.rs) on given bytes
\* ------------------------------------------------------------------------

\* The bytes bodies are made of.
ByteValues == {"1", "[", "]", ","}

\* The bodies of at most MaxBytes bytes.
Bodies == UNION {[1..n -> ByteValues] : n \in 0..MaxBytes}

\* The content types from_bytes is called with.
BodyContentTypes ==
    ContentTypes \cup {<<"application/json; charset=utf-8">>}

\* Any body under any content type; from_bytes not called yet.
InitBytes ==
    /\ body_bytes \in Bodies
    /\ body_ct \in BodyContentTypes
    /\ body_payload = <<>>
    /\ NoRoot
    /\ NoFilter
    /\ NoShared
    /\ NoRest
    /\ NoGraph
    /\ NoHeaders

\* Payload::from_bytes(bytes, content_type).
FromBytes ==
    /\ body_payload = <<>>
    /\ body_payload' = << from_bytes_of(body_bytes, body_ct) >>
    /\ UNCHANGED <<body_bytes, body_ct, rootVars, filterVars, graphVars,
                   headerVars, sharedVars,
                   restVars>>

NextBytes == FromBytes

SpecBytes == InitBytes /\ [][NextBytes]_vars

\* ------------------------------------------------------------------------
\* Jq::run (nodes/jq.rs) on given inputs and filter results
\* ------------------------------------------------------------------------

\* What exec distinguishes in an input: no payload, a Json value, Raw bytes
\* that are UTF-8 or not, an Error payload.
JqInputKinds == {"None", "Json", "Raw", "RawInvalid", "Error"}

\* The items of the filter's output: a value, or an error with its message.
JqItems ==
    {[ok |-> TRUE, v |-> x] : x \in {"v1", "v2"}}
        \cup {[ok |-> FALSE, v |-> x] : x \in {"e1", "e2"}}

\* A Jq node of any number of configured inputs, given any inputs, with a
\* filter yielding any items; run not called yet.
InitJq ==
    /\ jq_expected \in 0..MaxJq
    /\ jq_inputs \in UNION {[1..n -> JqInputKinds] : n \in 0..MaxJq}
    /\ jq_items \in UNION {[1..n -> JqItems] : n \in 0..MaxJq}
    /\ jq_state = <<>>
    /\ NoRoot
    /\ NoFilter
    /\ NoShared
    /\ NoGraph
    /\ NoHeaders
    /\ NoBytes
    /\ NoData

\* Jq::run(ctx, inputs).
JqRunOnce ==
    /\ jq_state = <<>>
    /\ jq_state' = << jq_run(jq_expected, jq_inputs, jq_items) >>
    /\ UNCHANGED <<jq_expected, jq_inputs, jq_items, rootVars, filterVars,
                   graphVars, headerVars, bytesVars, sharedVars, dataVars>>

NextJq == JqRunOnce

SpecJq == InitJq /\ [][NextJq]_vars

\* ------------------------------------------------------------------------
\* Data (data.rs): can_trigger, get_inputs_for, first_input_for on given
\* states
\* ------------------------------------------------------------------------

\* The names of a Data: "n" is asked about, any of them can provide for it.
DataNames == {"n", "p", "q"}

\* The states a name can have.
DataStates ==
    {Done("None"), Done("Json"), Done("Raw"), Fail("Error")}
        \cup {Waiting(t) : t \in Tokens}

\* The graph after add(srcs[i], "n") for each i in order.
RECURSIVE GraphOf(_, _)
GraphOf(srcs, i) ==
    IF i = 0 THEN EmptyGraph ELSE add(GraphOf(srcs, i - 1), srcs[i], "n")

\* Data::new(graph) for a graph giving "n" any providers, then any states
\* recorded with set; no method called yet.
InitData ==
    /\ data_added \in UNION {[1..k -> DataNames] : k \in 0..MaxProviders}
    /\ data_graph = GraphOf(data_added, Len(data_added))
    /\ data_states \in UNION {[K -> DataStates] : K \in SUBSET DataNames}
    /\ data_token \in {<<>>} \cup {<<t>> : t \in Tokens}
    /\ data_answer = <<>>
    /\ NoRoot
    /\ NoFilter
    /\ NoShared
    /\ NoGraph
    /\ NoHeaders
    /\ NoBytes
    /\ NoJq

\* can_trigger, get_inputs_for and first_input_for of "n" with the token.
DataAsk ==
    /\ data_answer = <<>>
    /\ data_answer' =
          << [can_trigger |->
                 can_trigger(data_states, data_graph, "n", data_token),
              get_inputs_for |->
                 get_inputs_for(data_states, data_graph, "n", data_token),
              first_input_for |->
                 first_input_for(data_states, data_graph, "n", data_token)] >>
    /\ UNCHANGED <<data_added, data_graph, data_states, data_token, rootVars,
                   filterVars, graphVars, headerVars, bytesVars, sharedVars,
                   jqVars>>

NextData == DataAsk

SpecData == InitData /\ [][NextData]_vars

\* ------------------------------------------------------------------------
\* Properties
\* ------------------------------------------------------------------------

UserNodes == DOMAIN nodes

Providers(n) == each_input(config.graph, n)

\* This step is run_nodes invoking n.run.
RunStep(n) ==
    /\ pc = "run_nodes"
    /\ Len(trace') > Len(trace)
    /\ trace'[Len(trace')].op = "run"
    /\ trace'[Len(trace')].name = n

\* This step is on_http_call_response invoking n.resume.
ResumeStep(n) ==
    /\ pc = "idle"
    /\ phase' = "HttpCallResponse"
    /\ Len(trace') = 1
    /\ trace'[1].op = "resume"
    /\ trace'[1].name = n

\* C1: whatever callbacks the host delivers in a transaction, every
\* configured node's run is invoked at most once.
C1_RunAtMostOnce == \A n \in UserNodes : runCount[n] <= 1

\* A node has run, waited and been resumed, and the transaction has gone
\* through all its phases since.
C1_Witness ==
    /\ pc = "idle"
    /\ stage = "ResponseBodyEof"
    /\ \E n \in UserNodes : runCount[n] = 1 /\ resumeCount[n] = 1

\* C2: at the moment the scheduler invokes n.run, every provider of n has
\* the recorded state Done.
C2_RunOnlyWhenProvidersDone ==
    [][\A n \in UserNodes :
          RunStep(n) =>
             \A i \in 1..Len(Providers(n)) :
                /\ Providers(n)[i] \in DOMAIN states
                /\ states[Providers(n)[i]].tag = "Done"]_vars

\* A node with two providers has run while another node was Waiting or Fail.
C2_Witness ==
    \E n \in UserNodes :
       /\ runCount[n] = 1
       /\ Len(Providers(n)) = 2
       /\ \E m \in DOMAIN states : states[m].tag \in {"Waiting", "Fail"}

\* C3: once a node n has the recorded state Fail it keeps it, n is not run
\* again, and no node with n among its providers is run or resumed.
C3_FailAbsorbs ==
    [][\A n \in UserNodes :
          (n \in DOMAIN states /\ states[n].tag = "Fail") =>
             /\ states'[n] = states[n]
             /\ ~RunStep(n)
             /\ \A d \in UserNodes :
                   Contains(Providers(d), n) => ~RunStep(d) /\ ~ResumeStep(d)]_vars

\* The transaction is over, a node is Fail and a consumer of it never ran.
C3_Witness ==
    /\ pc = "idle"
    /\ stage = "ResponseBodyEof"
    /\ \E n, d \in UserNodes :
          /\ n \in DOMAIN states
          /\ states[n].tag = "Fail"
          /\ Contains(Providers(d), n)
          /\ d \notin DOMAIN states

\* This step is the entry of on_http_call_response: its resume loop.
CallResponseStep ==
    /\ pc = "idle"
    /\ pc' = "run_nodes"
    /\ phase' = "HttpCallResponse"

WaitingFor(st, n, token_id) == n \in DOMAIN st /\ st[n] = Waiting(token_id)

\* The number of entries of a sequence of events with the given op.
CountOp(seq, op) == Cardinality({i \in 1..Len(seq) : seq[i].op = op})

\* C4: n.resume is invoked at most once per transaction, only in an
\* on_http_call_response(token) at whose start n is Waiting(token), and
\* never on a node that has not been run.
C4_ResumeOnlyWaiting ==
    [][\A n \in UserNodes :
          ResumeStep(n) =>
             /\ resumeCount[n] = 0
             /\ WaitingFor(states, n, cbToken')
             /\ runCount[n] >= 1]_vars

\* C5: an on_http_call_response(token) delivered while n is Waiting(token)
\* resumes n and no other node, records n's new state, then runs the
\* scheduler, and calls resume_http_request last.
C5_MatchingTokenResumes ==
    /\ [][CallResponseStep =>
             \A n \in UserNodes :
                WaitingFor(states, n, cbToken') =>
                   /\ ResumeStep(n)
                   /\ ~WaitingFor(states', n, cbToken')]_vars
    /\ [](phase = "HttpCallResponse" =>
             \A i \in 1..Len(trace) :
                /\ trace[i].op = "resume" => i = 1
                /\ trace[i].op = "resume_http_request" =>
                      pc = "idle" /\ i = Len(trace))

\* C6: an on_http_call_response whose token matches no Waiting node resumes
\* no node and changes no state before the scheduler runs; the scheduler
\* runs and resume_http_request is called exactly once.
C6_UnknownTokenIgnored ==
    /\ [][(CallResponseStep
            /\ ~\E n \in UserNodes : WaitingFor(states, n, cbToken')) =>
               trace' = <<>> /\ states' = states]_vars
    /\ []((phase = "HttpCallResponse" /\ pc = "idle") =>
             CountOp(trace, "resume_http_request") = 1)

\* C7: run_nodes terminates on every graph: a pass visits each name once,
\* every pass that is not the last records a state for a node that had none,
\* and there are at most N + 1 passes for N configured nodes.
C7_PassesBounded ==
    /\ [](pc = "run_nodes" =>
             /\ idx <= Len(config.node_names) + 1
             /\ passes <= Len(config.node_names) + 1)
    /\ [][(pc = "run_nodes" /\ passes' = passes + 1) =>
             \E i \in 1..Len(config.node_names) :
                /\ config.node_names[i] \notin DOMAIN passStart
                /\ config.node_names[i] \in DOMAIN states]_vars

\* run_nodes has returned after N + 1 passes over N >= 3 nodes.
C7_Witness ==
    /\ pc = "returned"
    /\ Len(config.node_names) >= 3
    /\ passes = Len(config.node_names) + 1

\* The implicit names whose state the filter records by itself.
SeededNames ==
    {"request_headers", "request_body", "service_response_headers",
     "service_response_body", "response_body"}

GraphNames == DOMAIN config.graph.providers \cup DOMAIN config.graph.dependents

ProviderSet(n) == {Providers(n)[i] : i \in 1..Len(Providers(n))}

\* The names from which a chain of provider edges leads into S, where the
\* chain passes only through names of allowed.
RECURSIVE Upstream(_, _)
Upstream(S, allowed) ==
    LET T == S \cup (allowed \cap UNION {ProviderSet(m) : m \in S})
    IN  IF T = S THEN S ELSE Upstream(T, allowed)

Ancestors(n, allowed) == Upstream(allowed \cap ProviderSet(n), allowed)

\* n is on a cycle of names of allowed, or depends on such a name through
\* names of allowed.
BehindCycle(n, allowed) ==
    /\ n \in allowed
    /\ \E m \in Ancestors(n, allowed) \cup {n} : m \in Ancestors(m, allowed)

\* C8 as claimed: a node on a dependency cycle, or reachable only through
\* such a node, is never run.
C8_CycleNeverRuns_Claimed ==
    \A n \in UserNodes : BehindCycle(n, GraphNames) => runCount[n] = 0

\* C8 as amended: a node on a dependency cycle none of whose members is an
\* implicit name the filter records by itself, or depending on such a node
\* through names of that kind, is never run (nor given a state).
C8_UserCycleNeverRuns ==
    \A n \in UserNodes :
       BehindCycle(n, GraphNames \ SeededNames) =>
          runCount[n] = 0 /\ n \notin DOMAIN states

\* The transaction is over, a node outside the cycle has run and the nodes
\* on and behind the cycle have not.
C8_Witness ==
    /\ pc = "idle"
    /\ stage = "ResponseBodyEof"
    /\ \E n, d, m \in UserNodes :
          /\ n \in Ancestors(n, GraphNames \ SeededNames)
          /\ d \notin Ancestors(d, GraphNames \ SeededNames)
          /\ BehindCycle(d, GraphNames \ SeededNames)
          /\ runCount[m] = 1

\* C9: when run_nodes returns, no configured node is left that has no
\* recorded state and whose providers are all Done.
C9_QuiescentOnReturn ==
    pc = "returned" =>
       \A i \in 1..Len(config.node_names) :
          ~Ready(states, config.node_names[i])

\* run_nodes returns after nodes became ready, and ran, in two passes
\* after the first.
C9_Witness ==
    /\ pc = "returned"
    /\ passes >= 4
    /\ \E i \in 1..Len(trace) : trace[i].op = "run" /\ trace[i].since >= 2

\* Position in node_names of the node whose invocation is entry k of trace
\* (0 for what was ready when the scheduler started).
FiredAt(k) == IF k = 0 THEN 0 ELSE trace[k].at

\* Pairs of run entries of trace for nodes that became ready together.
ReadyTogether ==
    {pq \in (1..Len(trace)) \X (1..Len(trace)) :
        /\ pq[1] < pq[2]
        /\ trace[pq[1]].op = "run"
        /\ trace[pq[2]].op = "run"
        /\ trace[pq[1]].since = trace[pq[2]].since}

\* C10 as claimed: nodes that became ready together are invoked in declared
\* order, wherever they are declared relative to the node that made them
\* ready.
C10_DeclaredOrder_Claimed ==
    \A pq \in ReadyTogether : trace[pq[1]].at < trace[pq[2]].at

\* C10 as amended: of the nodes made ready together by the run of a node f,
\* those declared after f are invoked first, in declared order (in the same
\* pass), then those declared before f, in declared order (in the next).
C10_DeclaredOrderPerSide ==
    \A pq \in ReadyTogether :
       LET f == FiredAt(trace[pq[1]].since)
           x == trace[pq[1]].at
           y == trace[pq[2]].at
       IN  IF (x > f) = (y > f) THEN x < y ELSE x > f /\ y < f

\* Three nodes made ready by one run: two declared after the node that ran,
\* invoked in declared order, and one declared before it, invoked last.
C10_Witness ==
    \E p, q, r \in 1..Len(trace) :
       /\ <<p, q>> \in ReadyTogether
       /\ <<q, r>> \in ReadyTogether
       /\ trace[p].since >= 1
       /\ trace[r].at < FiredAt(trace[r].since)
       /\ FiredAt(trace[p].since) < trace[p].at
       /\ trace[p].at < trace[q].at

\* The run entries of trace made in the current pass of run_nodes: those of
\* nodes that had no state when the pass began.
PassRuns ==
    SelectSeq(trace, LAMBDA e : e.op = "run" /\ e.name \notin DOMAIN passStart)

\* C11: within one pass of run_nodes the names are visited in declared
\* order: the nodes run in the pass, in the order they ran, stand at
\* strictly increasing positions of node_names, all before the position the
\* loop has reached.
C11_PassRunsSubsequence ==
    \A j \in 1..Len(PassRuns) :
       /\ config.node_names[PassRuns[j].at] = PassRuns[j].name
       /\ pc = "run_nodes" => PassRuns[j].at < idx
       /\ \A i \in 1..(j - 1) : PassRuns[i].at < PassRuns[j].at

\* A pass has visited every name: three nodes ran in it, and the node
\* declared first, visited before them, did not.
C11_Witness ==
    /\ pc = "run_nodes"
    /\ idx > Len(config.node_names)
    /\ Len(PassRuns) >= 3
    /\ PassRuns[1].at >= 2

\* A run of this invocation of run_nodes returned Waiting.
RanWaiting ==
    \E i \in 1..Len(trace) : trace[i].op = "run" /\ trace[i].tag = "Waiting"

\* C12: run_nodes returns Pause if and only if a node's run returned
\* Waiting during that invocation, and Continue otherwise.
C12_PauseIffWaiting ==
    pc = "returned" =>
       /\ ret \in {"Pause", "Continue"}
       /\ ret = "Pause" <=> RanWaiting

\* run_nodes returns Continue, no node having fired, while a node run in an
\* earlier callback is still Waiting.
C12_Witness ==
    /\ pc = "returned"
    /\ ret = "Continue"
    /\ CountOp(trace, "run") = 0
    /\ \E n \in UserNodes : n \in DOMAIN states /\ states[n].tag = "Waiting"

\* The implicit sources the body callbacks record.
BodySources == {"request_body", "service_response_body"}

\* The entries of a sequence of events that are calls of the host.
HostCalls(seq) == SelectSeq(seq, LAMBDA e : e.op \notin {"run", "resume"})

\* C13: a body callback (on_http_request_body or on_http_response_body)
\* with eof = false returns Pause, records no state for an implicit source
\* and makes no call that writes to the host.
C13_ChunkPausesUntouched ==
    (pc = "idle" /\ phase \in {"HttpRequestBody", "HttpResponseBody"} /\ ~eof) =>
       /\ ret = "Pause"
       /\ \A n \in BodySources : n \in DOMAIN states => n \in DOMAIN cbStart
       /\ HostCalls(trace) = <<>>

\* The implicit source each phase callback records.
SourceOf(ph) ==
    CASE ph = "HttpRequestHeaders" -> {"request_headers"}
      [] ph = "HttpRequestBody" -> {"request_body"}
      [] ph = "HttpResponseHeaders" -> {"service_response_headers"}
      [] ph = "HttpResponseBody" -> {"service_response_body"}
      [] OTHER -> {}

SourceNames ==
    {"request_headers", "request_body", "service_response_headers",
     "service_response_body"}

\* An entry of trace that is a call of the host made by the filter itself
\* (not from inside a node's run).
IsDriverCall(e) == e.op \notin {"run", "resume"} /\ e.name = ""

\* C14: in every callback the phase's implicit source is recorded (as Done)
\* in the step that enters the scheduler and never later; the filter writes
\* to the host only once the scheduler has returned, so its writes follow
\* every node invocation of the callback.
C14_SeedRunDrain ==
    /\ [][\A n \in SourceNames :
             (n \in DOMAIN states' /\ (n \in DOMAIN states => states'[n] # states[n]))
                => /\ pc = "idle"
                   /\ pc' = "run_nodes"
                   /\ n \in SourceOf(phase')
                   /\ states'[n].tag = "Done"]_vars
    /\ [](pc \in {"run_nodes", "returned"} =>
             \A i \in 1..Len(trace) : ~IsDriverCall(trace[i]))
    /\ [](\A i, j \in 1..Len(trace) :
             (i < j /\ IsDriverCall(trace[i])) => IsDriverCall(trace[j]))

\* A callback has recorded its source, run a node on it and then drained a
\* sink to the host.
C14_Witness ==
    /\ pc = "idle"
    /\ \E n \in SourceOf(phase) : n \in DOMAIN states /\ n \notin DOMAIN cbStart
    /\ Len(trace) >= 2
    /\ trace[1].op = "run"
    /\ IsDriverCall(trace[Len(trace)])

\* C15: a configured node's recorded state is never removed; Done and Fail
\* never change; Waiting(t) changes only to Done or Fail, and only in the
\* resume loop of on_http_call_response(t); a first state is Done, Fail or
\* Waiting.
C15_StateLifecycle ==
    [][\A n \in UserNodes :
          /\ n \in DOMAIN states => n \in DOMAIN states'
          /\ n \in DOMAIN states' => states'[n].tag \in {"Done", "Fail", "Waiting"}
          /\ (n \in DOMAIN states /\ states[n].tag \in {"Done", "Fail"}) =>
                states'[n] = states[n]
          /\ (n \in DOMAIN states /\ states[n].tag = "Waiting"
                /\ states'[n] # states[n]) =>
                /\ states'[n].tag \in {"Done", "Fail"}
                /\ CallResponseStep
                /\ cbToken' = states[n].token]_vars

\* The transaction is over: one node went from Waiting to Done in a call
\* response and another, never answered, is still Waiting.
C15_Witness ==
    /\ pc = "idle"
    /\ stage = "ResponseBodyEof"
    /\ \E n, w \in UserNodes :
          /\ resumeCount[n] = 1 /\ runCount[n] = 1 /\ states[n].tag = "Done"
          /\ w \in DOMAIN states /\ states[w].tag = "Waiting"

\* can_trigger(n, None) on the recorded states st.
CanRun(st, n) == can_trigger(st, config.graph, n, <<>>)

\* C16: a configured node for which can_trigger(n, None) is true stays so
\* at every step but the one in which the scheduler runs n itself.
C16_ReadinessMonotone ==
    [][\A n \in UserNodes :
          (CanRun(states, n) /\ ~CanRun(states', n)) => RunStep(n)]_vars

\* The Response nodes that list c among their inputs.
ResponseConsumers(c) ==
    {r \in UserNodes : nodes[r].type = "response" /\ Contains(Providers(r), c)}

\* C17: a Call node whose url does not parse, once run, has the recorded
\* state Fail(Error); a Response node consuming a Call that has such a url,
\* or that is Fail, is never run and sends no response.
C17_BadCallFails ==
    \A c \in UserNodes :
       (nodes[c].type = "call" /\ runCount[c] >= 1) =>
          /\ nodes[c].url = "bad" =>
                c \in DOMAIN states /\ states[c] = Fail("Error")
          /\ (nodes[c].url = "bad" \/ states[c].tag = "Fail") =>
                \A r \in ResponseConsumers(c) :
                   /\ runCount[r] = 0
                   /\ \A i \in 1..Len(trace) :
                         ~(trace[i].op = "send_http_response" /\ trace[i].name = r)

\* Entry i of trace is the invocation op of node n returning the state st.
Invoked(i, op, n, st) ==
    /\ i <= Len(trace)
    /\ trace[i].op = op
    /\ trace[i].name = n
    /\ trace[i].tag = st.tag
    /\ trace[i].payload = st.payload

\* C18: with Call c (input request_body) and Response r (status 201, input
\* c): r is not run while c is Waiting; c runs in the request body callback
\* with eof, which, c returning Waiting, invokes nothing else and returns
\* Pause; the on_http_call_response of c's token resumes c to Done(payload)
\* and, unless the payload is an Error, runs r once, which sends the
\* response 201 with that payload as body and its content type; then, last,
\* resume_http_request is called.
C18_CallThenResponse ==
    config.node_list = CallThenResponse =>
       /\ ("c" \in DOMAIN states /\ states["c"].tag = "Waiting") =>
             runCount["r"] = 0
       /\ (\E i \in 1..Len(trace) : trace[i].op = "run" /\ trace[i].name = "c") =>
             phase = "HttpRequestBody" /\ eof
       /\ (phase = "HttpRequestBody" /\ pc = "idle" /\ RanWaiting) =>
             /\ ret = "Pause"
             /\ Len(trace) = 1
             /\ Invoked(1, "run", "c", states["c"])
       /\ (phase = "HttpCallResponse" /\ pc = "idle"
             /\ WaitingFor(cbStart, "c", cbToken)) =>
             /\ states["c"].tag = "Done"
             /\ Invoked(1, "resume", "c", states["c"])
             /\ trace[Len(trace)].op = "resume_http_request"
             /\ CountOp(trace, "resume_http_request") = 1
             /\ states["c"].payload # "Error" =>
                   /\ Len(trace) = 4
                   /\ trace[2].op = "send_http_response"
                   /\ trace[2].name = "r"
                   /\ trace[2].status = 201
                   /\ trace[2].payload = states["c"].payload
                   /\ trace[2].content_type = content_type(states["c"].payload)
                   /\ Invoked(3, "run", "r", Done("None"))
                   /\ runCount["r"] = 1

\* The call response of the scenario is over: c was resumed with a JSON
\* body and r sent it with status 201 before resume_http_request.
C18_Witness ==
    /\ config.node_list = CallThenResponse
    /\ phase = "HttpCallResponse"
    /\ pc = "idle"
    /\ Len(trace) = 4
    /\ trace[2].op = "send_http_response"
    /\ trace[2].status = 201
    /\ trace[2].payload = "Json"
    /\ trace[4].op = "resume_http_request"

\* The Template nodes that have been run.
RanTemplates ==
    {n \in UserNodes : nodes[n].type = "template" /\ rendered[n] # ""}

\* C19 as claimed: a Template's run returns Fail exactly when the rendering
\* fails, and Done carrying from_bytes(rendered, content_type) whenever it
\* succeeds.
C19_FailIffRenderFails_Claimed ==
    \A n \in RanTemplates :
       /\ states[n].tag = "Fail" <=> rendered[n] = "Err"
       /\ rendered[n] = "Ok" =>
             /\ states[n].tag = "Done"
             /\ states[n].payload \in from_bytes(<<nodes[n].content_type>>)

\* C19 as amended: a Template's run returns Fail(Error) when the rendering
\* fails and when from_bytes of the rendered text is an Error, which only
\* the content type application/json can give; otherwise it returns Done
\* carrying from_bytes(rendered, content_type), a Json or a Raw payload.
C19_FailOnRenderOrDecodeError ==
    \A n \in RanTemplates :
       LET ct == nodes[n].content_type
       IN  /\ rendered[n] = "Err" => states[n] = Fail("Error")
           /\ states[n].tag = "Fail" =>
                 /\ states[n].payload = "Error"
                 /\ rendered[n] = "Err" \/ ct = "application/json"
           /\ states[n].tag = "Done" =>
                 /\ rendered[n] = "Ok"
                 /\ states[n].payload \in from_bytes(<<ct>>) \ {"Error"}
                 /\ states[n].payload =
                       (IF ct = "application/json" THEN "Json" ELSE "Raw")

\* A Template whose rendering succeeded has the state Fail.
C19_Witness ==
    \E n \in RanTemplates : rendered[n] = "Ok" /\ states[n].tag = "Fail"

\* The Content-Type the filter has set on the downstream response in the
\* running callback (<<>> when it removed the header), or "unset".
SetContentType ==
    LET S == {i \in 1..Len(trace) : trace[i].op = "set_response_body_headers"}
    IN  IF S = {} THEN "unset"
        ELSE content_type(trace[CHOOSE i \in S : \A j \in S : j <= i].payload)

\* C20: with the single Template t (content_type text/plain, input
\* request_headers, output response_body) rendered successfully and no
\* tracing, the response headers callback sets the downstream Content-Type
\* to text/plain and the response body callback (eof) sets the downstream
\* body to the rendered text.
C20_TemplateOnly ==
    (/\ config.node_list = TemplateOnly
     /\ ~tracing
     /\ pc = "idle"
     /\ "t" \in DOMAIN states
     /\ states["t"].tag = "Done") =>
       /\ phase = "HttpResponseHeaders" => SetContentType = <<"text/plain">>
       /\ (phase = "HttpResponseBody" /\ eof) =>
             \E i \in 1..Len(trace) :
                trace[i].op = "set_http_response_body" /\ trace[i].payload = "Raw"

\* The parsed plugin configuration names a node with a reserved name.
ReservedNameUsed ==
    /\ plugin_configuration # <<>>
    /\ plugin_configuration[1].parses
    /\ \E i \in 1..Len(plugin_configuration[1].value.nodes) :
          plugin_configuration[1].value.nodes[i].name \in RESERVED_NODE_NAMES

\* C21: for a configuration with a node named by a reserved name,
\* on_configure returns false, logging "cannot use reserved node name" with
\* the first such name of the configuration; no config is installed, before
\* or after, and every create_http_context returns no context.
C21_ReservedNameRejected ==
    ReservedNameUsed =>
       /\ root_config = <<>>
       /\ \A i \in 1..Len(created) : created[i] = <<>>
       /\ configured # <<>> =>
             LET ns == plugin_configuration[1].value.nodes
                 w == configured[1].warn
             IN  /\ configured[1].ret = FALSE
                 /\ Len(w) = 2
                 /\ w[1] = "cannot use reserved node name"
                 /\ w[2] \in RESERVED_NODE_NAMES
                 /\ \E i \in 1..Len(ns) :
                       /\ ns[i].name = w[2]
                       /\ \A j \in 1..(i - 1) :
                             ns[j].name \notin RESERVED_NODE_NAMES

\* A configuration whose second node has a reserved name (and whose third
\* another one) was rejected, and two streams got no context since.
C21_Witness ==
    /\ ReservedNameUsed
    /\ configured # <<>>
    /\ Len(plugin_configuration[1].value.nodes) = 3
    /\ configured[1].warn[2] = "response_headers"
    /\ plugin_configuration[1].value.nodes[3].name = "request_body"
    /\ Len(created) = 2

\* C22: the node names of an installed configuration contain no reserved
\* name and no name twice.
C22_NamesUniqueUnreserved ==
    root_config # <<>> =>
       LET names == root_config[1].node_names
       IN  /\ \A i \in 1..Len(names) : names[i] \notin RESERVED_NODE_NAMES
           /\ \A i, j \in 1..Len(names) : names[i] = names[j] => i = j

\* The Response nodes the user configured without any output.
BareResponses(cfg) ==
    {i \in 1..Len(cfg.node_list) :
        cfg.node_list[i].type = "response" /\ cfg.node_list[i].outputs = <<>>}

\* C23: in an installed configuration every Response node configured
\* without outputs is a provider of response_body in the graph, and the
\* filters created from it have do_response_body set.
C23_ResponseDefaultOutput ==
    root_config # <<>> =>
       \A i \in BareResponses(root_config[1]) :
          LET g == root_config[1].graph
          IN  /\ has_providers(g, "response_body")
              /\ Contains(each_input(g, "response_body"),
                          root_config[1].node_list[i].name)
              /\ \A k \in 1..Len(created) :
                    created[k] # <<>> => created[k][1].flags.do_response_body

\* The list a map of the graph holds for a key; no list when the key is
\* absent.
ListOf(map, key) == IF key \in DOMAIN map THEN map[key] ELSE <<>>

\* C24: after any sequence of add calls, a is in providers[b] exactly
\* when b is in dependents[a].
C24_GraphSymmetry ==
    /\ DOMAIN dg.providers \subseteq GraphArgs
    /\ DOMAIN dg.dependents \subseteq GraphArgs
    /\ \A a \in GraphArgs, b \in GraphArgs :
          Contains(ListOf(dg.providers, b), a)
             <=> Contains(ListOf(dg.dependents, a), b)

C24_Witness ==
    /\ Len(added) >= 3
    /\ \E b \in GraphArgs : Len(ListOf(dg.providers, b)) >= 2
    /\ \E a \in GraphArgs : Contains(ListOf(dg.providers, a), a)

\* The sources of the calls add(_, dst) among the first n calls, each at
\* its first occurrence.
RECURSIVE FirstProducers(_, _, _)
FirstProducers(calls, dst, n) ==
    IF n = 0 THEN <<>>
    ELSE LET before == FirstProducers(calls, dst, n - 1)
         IN  IF calls[n][2] = dst /\ ~Contains(before, calls[n][1])
             THEN Append(before, calls[n][1])
             ELSE before

\* A list holds no name twice.
NoRepeat(seq) == \A i, j \in 1..Len(seq) : seq[i] = seq[j] => i = j

\* C25: adding an edge the graph already has changes neither map, no
\* list of either map holds a name twice, and providers[b] lists the
\* producers of b in the order they were first added.
C25_AddIdempotentOrdered ==
    /\ \A i \in 1..Len(added) : add(dg, added[i][1], added[i][2]) = dg
    /\ \A n \in GraphArgs :
          /\ NoRepeat(ListOf(dg.providers, n))
          /\ NoRepeat(ListOf(dg.dependents, n))
          /\ ListOf(dg.providers, n) = FirstProducers(added, n, Len(added))

C25_Witness ==
    /\ \E i, j \in 1..Len(added) : i < j /\ added[i] = added[j]
    /\ \E b \in GraphArgs :
          /\ Len(ListOf(dg.providers, b)) >= 2
          /\ \E i, j \in 1..Len(added) :
                /\ i < j
                /\ added[i][2] = b /\ added[j][2] = b
                /\ added[i][1] # added[j][1]

\* The header values an entry of a headers object stands for.
ValuesOf(entry) ==
    IF entry.kind = "String" THEN <<entry.s>>
    ELSE IF entry.kind = "Array"
         THEN [i \in 1..Len(entry.items) |-> entry.items[i].s]
         ELSE <<>>

\* The values an object holds for the header called name whatever its
\* case, in the order of the object's entries from the i-th key on.
RECURSIVE HeaderValuesFor(_, _, _)
HeaderValuesFor(map, name, i) ==
    IF i > Len(KeyOrder) THEN <<>>
    ELSE LET k == KeyOrder[i]
         IN  (IF k \in DOMAIN map /\ to_lowercase(k) = name
              THEN ValuesOf(map[k]) ELSE <<>>)
                \o HeaderValuesFor(map, name, i + 1)

\* The object has only strings and arrays of strings as values.
ObjectOfStrings(map) ==
    \A k \in DOMAIN map :
       \/ map[k].kind = "String"
       \/ /\ map[k].kind = "Array"
          /\ \A i \in 1..Len(map[k].items) : map[k].items[i].kind = "String"

\* C26: for an object p of strings and arrays of strings,
\* from_pwm_headers(to_pwm_headers(p)) has lower-case names only and
\* holds for every lower-cased name the values p holds for it, in p's
\* order.
C26_HeaderRoundTrip ==
    (header_json # <<>> /\ ObjectOfStrings(header_map)) =>
       /\ \A k \in DOMAIN header_json[1] : to_lowercase(k) = k
       /\ ObjectOfStrings(header_json[1])
       /\ \A i \in 1..Len(KeyOrder) :
             LET name == to_lowercase(KeyOrder[i])
             IN  HeaderValuesFor(header_json[1], name, 1)
                    = HeaderValuesFor(header_map, name, 1)

C26_Witness ==
    /\ header_json # <<>>
    /\ ObjectOfStrings(header_map)
    /\ DOMAIN header_map = {"A", "a", "b"}
    /\ header_map["A"] = JString("x")
    /\ header_map["a"] = JArray(<<JString("y"), JString("x")>>)
    /\ header_map["b"] = JString("y")
    /\ header_json[1]["a"].kind = "Array"
    /\ Len(header_json[1]["a"].items) = 3
    /\ header_json[1]["b"].kind = "String"

\* The texts of a list joined by commas.
RECURSIVE JoinTexts(_, _)
JoinTexts(texts, i) ==
    IF i > Len(texts) THEN <<>>
    ELSE texts[i] \o (IF i < Len(texts) THEN <<",">> ELSE <<>>)
            \o JoinTexts(texts, i + 1)

\* The JSON texts of at most MaxBytes bytes nested at most d deep, as the
\* grammar generates them: a number, or an array of texts.
RECURSIVE JsonTexts(_)
JsonTexts(d) ==
    LET numbers == {[i \in 1..n |-> "1"] : n \in 1..MaxBytes}
    IN  IF d = 0 THEN numbers
        ELSE LET inner == JsonTexts(d - 1)
                 lists == UNION {[1..k -> inner] : k \in 0..(MaxBytes \div 2)}
             IN  inner \cup
                 {t \in {<<"[">> \o JoinTexts(l, 1) \o <<"]">> : l \in lists} :
                     Len(t) <= MaxBytes}

\* serde_json::to_string of a value.
RECURSIVE to_string(_)
to_string(tree) ==
    IF tree.kind = "Number" THEN [i \in 1..tree.n |-> "1"]
    ELSE <<"[">>
            \o JoinTexts([i \in 1..Len(tree.items) |-> to_string(tree.items[i])], 1)
            \o <<"]">>

\* C27: from_bytes gives nothing without a content type; under exactly
\* "application/json" it gives Json of the parsed value when the bytes are
\* a JSON text and Error with a message when they are not; under any
\* other content type it gives Raw of the bytes.
C27_FromBytes ==
    body_payload # <<>> =>
       LET r == body_payload[1]
       IN  /\ r.tag \in from_bytes(IF body_ct = <<>> THEN <<>>
                                   ELSE IF body_ct[1] = "application/json"
                                        THEN body_ct ELSE <<"text/plain">>)
           /\ body_ct = <<>> => r.tag = "None"
           /\ (body_ct = <<"application/json">>
                  /\ body_bytes \in JsonTexts(MaxBytes \div 2)) =>
                 r.tag = "Json" /\ to_string(r.value) = body_bytes
           /\ (body_ct = <<"application/json">>
                  /\ body_bytes \notin JsonTexts(MaxBytes \div 2)) =>
                 r.tag = "Error" /\ r.value # <<>>
           /\ body_ct \notin {<<>>, <<"application/json">>} =>
                 r.tag = "Raw" /\ r.value = body_bytes

C27_Witness ==
    /\ body_payload # <<>>
    /\ body_ct = <<"application/json">>
    /\ body_bytes = <<"[", "1", "1">>
    /\ body_payload[1].tag = "Error"

\* The two entries of the debug trace an invocation of a node stands for:
\* e is the invocation's entry in trace.
InvocationEntries(e) ==
    << [action |-> e.op, name |-> e.name, type |-> nodes[e.name].type,
        value |-> "None"],
       [action |-> IF e.tag = "Done" THEN "value"
                   ELSE IF e.tag = "Waiting" THEN "wait" ELSE "fail",
        name |-> e.name,
        type |-> IF e.tag = "Done" THEN operations'[Len(operations')].type
                 ELSE "",
        value |-> IF e.tag = "Waiting" THEN "None" ELSE e.payload] >>

\* C28: while tracing, a step only appends to the debug trace, and a step
\* that runs or resumes a node appends exactly two entries: the run or
\* resume entry of the node, then the value, wait or fail entry of the
\* same node for the state the invocation returned.
C28_TraceAppendOnly ==
    [][tracing' =>
          LET old == get_trace(operations)
              new == get_trace(operations')
          IN  /\ Len(old) <= Len(new)
              /\ SubSeq(new, 1, Len(old)) = old
              /\ \A n \in DOMAIN nodes :
                    (RunStep(n) \/ ResumeStep(n)) =>
                       /\ Len(new) = Len(old) + 2
                       /\ SubSeq(new, Len(old) + 1, Len(new))
                             = InvocationEntries(trace'[Len(trace')])
                       /\ DataTypes(states'[n]) # {}
                       /\ new[Len(new)].type \in
                             (IF states'[n].tag = "Done"
                              THEN DataTypes(states'[n]) ELSE {""})]_vars

C28_Witness ==
    /\ tracing
    /\ \E i, j, k \in 1..(Len(operations) - 1) :
          LET t == get_trace(operations)
          IN  /\ t[i].action = "run" /\ t[i + 1].action = "wait"
              /\ t[i + 1].name = t[i].name
              /\ t[j].action = "resume" /\ t[j + 1].action = "value"
              /\ t[j + 1].name = t[i].name
              /\ t[k].action = "run" /\ t[k + 1].action = "fail"

\* The downstream response's Content-Type, Content-Length and
\* Content-Encoding after the first n host calls of the running callback:
\* <<>> for a header that was removed, the host's or a node's value while
\* the filter has not set it.
RECURSIVE DownstreamHeaders(_, _)
DownstreamHeaders(seq, n) ==
    IF n = 0
    THEN [ct |-> <<"(host's)">>, cl |-> <<"(host's)">>, ce |-> <<"(host's)">>]
    ELSE LET before == DownstreamHeaders(seq, n - 1)
             e == seq[n]
         IN  IF e.op \in {"set_http_response_headers", "send_http_response"}
             THEN [ct |-> <<"(node's)">>, cl |-> <<"(node's)">>,
                   ce |-> <<"(node's)">>]
             ELSE IF e.op = "set_response_body_headers"
             THEN [ct |-> content_type(e.payload),
                   cl |-> IF e.payload = "Json" THEN <<>> ELSE <<"(length)">>,
                   ce |-> <<>>]
             ELSE IF e.op = "set_trace_headers"
             THEN [ct |-> <<"application/json">>, cl |-> <<>>, ce |-> <<>>]
             ELSE before

\* The bodies written on the downstream response in the running callback.
BodyWrites ==
    SelectSeq(trace, LAMBDA e : e.op = "set_http_response_body")

\* The configuration has debug and the request carried an
\* X-DataKit-Debug-Trace other than off, false and 0.
TraceRequested ==
    /\ config.debug
    /\ trace_header # <<>>
    /\ trace_header[1] # <<>>
    /\ trace_header[1][1] \notin {"off", "false", "0"}

\* C29: when a trace was requested, the response headers callback leaves
\* Content-Type application/json and no Content-Length or
\* Content-Encoding, and the last body the response body callback (eof)
\* writes is the trace; when none was requested no operation is recorded
\* and no trace is written.
C29_TraceOutput ==
    /\ (TraceRequested /\ pc = "idle" /\ phase = "HttpResponseHeaders") =>
          DownstreamHeaders(trace, Len(trace))
             = [ct |-> <<"application/json">>, cl |-> <<>>, ce |-> <<>>]
    /\ (TraceRequested /\ pc = "idle" /\ phase = "HttpResponseBody" /\ eof) =>
          /\ BodyWrites # <<>>
          /\ BodyWrites[Len(BodyWrites)].payload = "Trace"
          /\ trace[Len(trace)] = BodyWrites[Len(BodyWrites)]
    /\ ~TraceRequested =>
          /\ operations = <<>>
          /\ \A i \in 1..Len(trace) :
                /\ trace[i].payload # "Trace"
                /\ trace[i].op # "set_trace_headers"

\* A trace was requested, a node produced a payload for response_body,
\* and the response body callback wrote that payload and then the trace.
C29_Witness ==
    /\ TraceRequested
    /\ pc = "idle" /\ phase = "HttpResponseBody" /\ eof
    /\ Len(BodyWrites) >= 2
    /\ BodyWrites[Len(BodyWrites) - 1].payload \in {"Json", "Raw"}
    /\ Len(operations) >= 3
    /\ \E n \in DOMAIN nodes :
          /\ Contains(each_input(config.graph, "response_body"), n)
          /\ n \in DOMAIN states
          /\ states[n].tag = "Done"

\* C30: with two HTTP contexts of one configuration and their callbacks
\* interleaved, no step changes the shared configuration (its dependency
\* graph and the flags of its node configs); a step of a callback leaves
\* the states, node instances and trace of the other context as they were,
\* and the host's switching to the other context changes neither of them;
\* and a Response with a status that runs in the response body phase logs
\* its warning whatever the other context has done.
C30_Isolation ==
    [][/\ config' = config
       /\ config_warn_headers_sent' = config_warn_headers_sent
       /\ IF current' # current
          THEN other' = << Snapshot >> /\ << Snapshot' >> = other
          ELSE other' = other
       /\ \A n \in DOMAIN nodes :
             (/\ current' = current
              /\ RunStep(n)
              /\ nodes[n].type = "response"
              /\ nodes[n].status # <<>>
              /\ phase = "HttpResponseBody"
              /\ states'[n].tag = "Done") =>
                warnings' = Append(warnings, n)]_vars

\* Both contexts ran their Response in the response body phase and both
\* logged the warning; one of them traced, the other did not.
C30_Witness ==
    /\ other # <<>>
    /\ current = 2
    /\ pc = "idle"
    /\ warnings = <<"r">>
    /\ other[1].warnings = <<"r">>
    /\ ~warn_headers_sent["r"]
    /\ config_warn_headers_sent["r"]
    /\ operations = <<>>
    /\ other[1].operations # <<>>
    /\ "r" \in DOMAIN states
    /\ "r" \in DOMAIN other[1].states


\* ------------------------------------------------------------------------
\* C31: the State that Jq::run builds from the filter's results
\* ------------------------------------------------------------------------

\* An error was pushed, or the inputs were not as many as configured.
JqFailed ==
    \/ Len(jq_inputs) # jq_expected
    \/ \E i \in 1..Len(jq_inputs) : jq_inputs[i] = "RawInvalid"
    \/ \E i \in 1..Len(jq_items) : ~jq_items[i].ok

\* The messages of the errors, in the order they were raised.
JqMessages ==
    IF Len(jq_inputs) # jq_expected THEN <<"invalid number of inputs">>
    ELSE [i \in 1..Cardinality({k \in 1..Len(jq_inputs) :
                                    jq_inputs[k] = "RawInvalid"})
              |-> "not valid UTF-8"]
         \o [i \in 1..Len(SelectSeq(jq_items, LAMBDA it : ~it.ok))
              |-> SelectSeq(jq_items, LAMBDA it : ~it.ok)[i].v]

\* The pieces are the messages in order, with ", " between two of them.
JoinedBy(pieces, messages) ==
    /\ Len(messages) > 0
    /\ Len(pieces) = 2 * Len(messages) - 1
    /\ \A i \in 1..Len(pieces) :
          pieces[i] = IF i % 2 = 1 THEN messages[(i + 1) \div 2] ELSE ", "

\* C31: Jq.run returns Done(None) for zero results, Done(Json(result)) with
\* the result unwrapped for exactly one, Done(Json(array)) of the results in
\* order for more than one; with any binding or filter error it returns
\* Fail(Error(...)) of the messages joined by ", ", never Done.
C31_JqRunResult ==
    jq_state # <<>> =>
        LET st == jq_state[1]
            values == [i \in 1..Len(jq_items) |-> jq_items[i].v]
        IN  IF JqFailed
            THEN /\ st.tag = "Fail"
                 /\ st.payload.kind = "Error"
                 /\ JoinedBy(st.payload.items, JqMessages)
            ELSE /\ st.tag = "Done"
                 /\ Len(jq_items) = 0 => st.payload.kind = "None"
                 /\ Len(jq_items) = 1 =>
                       /\ st.payload.kind = "Json"
                       /\ st.payload.shape = "Scalar"
                       /\ st.payload.items = values
                 /\ Len(jq_items) > 1 =>
                       /\ st.payload.kind = "Json"
                       /\ st.payload.shape = "Array"
                       /\ st.payload.items = values

\* Witness: a run with a binding error and a filter error returned Fail.
C31_Witness ==
    /\ jq_state # <<>>
    /\ jq_expected = 2
    /\ jq_inputs = <<"RawInvalid", "Json">>
    /\ Len(jq_items) = 2
    /\ ~jq_items[1].ok
    /\ jq_items[2].ok
    /\ jq_state[1].tag = "Fail"
    /\ Len(jq_state[1].payload.items) = 3


\* ------------------------------------------------------------------------
\* C32: the host calls and the result of Response::run
\* ------------------------------------------------------------------------

\* The body given to n's run in this step: the first slot of its inputs.
BodyGiven(n) ==
    Slot(get_inputs_for(states, config.graph, n, <<>>)[1], 1)

\* The host calls made by the run of this step.
CallsOfRun == SubSeq(trace', Len(trace) + 1, Len(trace') - 1)

\* The run of this step returned st.
RunReturned(st) ==
    /\ trace'[Len(trace')].tag = st.tag
    /\ trace'[Len(trace')].payload = st.payload

\* The run of this step sent the response once, with n's status (200 when
\* none is configured), the body given and its content type.
SentOnce(n) ==
    /\ Len(CallsOfRun) = 1
    /\ CallsOfRun[1].op = "send_http_response"
    /\ CallsOfRun[1].status =
          (IF nodes[n].status = <<>> THEN 200 ELSE nodes[n].status[1])
    /\ CallsOfRun[1].payload = BodyGiven(n)
    /\ CallsOfRun[1].content_type = content_type(BodyGiven(n))

\* C32 as claimed: Response.run calls set_http_response_body, and never
\* send_http_response, when the driving phase is the response body; it calls
\* send_http_response(status or 200, headers, body) exactly once in every
\* other phase; given an Error payload as body it returns Fail(Error)
\* without either call, otherwise Done(None).
C32_ResponseRun_Claimed ==
    [][\A n \in UserNodes :
          (RunStep(n) /\ nodes[n].type = "response") =>
             IF BodyGiven(n) = "Error"
             THEN CallsOfRun = <<>> /\ RunReturned(Fail("Error"))
             ELSE /\ RunReturned(Done("None"))
                  /\ IF phase = "HttpResponseBody"
                     THEN /\ Len(CallsOfRun) = 1
                          /\ CallsOfRun[1].op = "set_http_response_body"
                     ELSE SentOnce(n)]_vars

\* C32 as amended: in the response body phase Response.run never calls
\* send_http_response, and calls set_http_response_body once with the body
\* when there is one, not at all when the body is None; in every other
\* phase it calls send_http_response(status or 200, headers, body) exactly
\* once; given an Error payload as body it returns Fail(Error) without
\* either call, otherwise Done(None).
C32_ResponseRun ==
    [][\A n \in UserNodes :
          (RunStep(n) /\ nodes[n].type = "response") =>
             IF BodyGiven(n) = "Error"
             THEN CallsOfRun = <<>> /\ RunReturned(Fail("Error"))
             ELSE /\ RunReturned(Done("None"))
                  /\ IF phase = "HttpResponseBody"
                     THEN IF BodyGiven(n) = "None"
                          THEN CallsOfRun = <<>>
                          ELSE /\ Len(CallsOfRun) = 1
                               /\ CallsOfRun[1].op = "set_http_response_body"
                               /\ CallsOfRun[1].payload = BodyGiven(n)
                     ELSE SentOnce(n)]_vars

\* Witness: a Response has run in the response body phase on a body that is
\* None, making no host call and returning Done(None).
C32_Witness ==
    /\ config.node_list = LateResponse
    /\ phase = "HttpResponseBody"
    /\ pc = "idle"
    /\ "service_response_body" \in DOMAIN states
    /\ states["service_response_body"] = Done("None")
    /\ Len(trace) = 1
    /\ trace[1].op = "run"
    /\ trace[1].name = "r"
    /\ trace[1].tag = "Done"


\* ------------------------------------------------------------------------
\* C33: Data::can_trigger
\* ------------------------------------------------------------------------

\* The names added as providers of "n".
AddedProviders == {data_added[i] : i \in 1..Len(data_added)}

\* "n" has no recorded state, or is Waiting for the token given.
MayFire ==
    \/ "n" \notin DOMAIN data_states
    \/ /\ data_states["n"].tag = "Waiting"
       /\ data_token = << data_states["n"].token >>

\* Every provider of "n" has a recorded state Done(_).
ProvidersDone ==
    \A p \in AddedProviders :
       p \in DOMAIN data_states /\ data_states[p].tag = "Done"

\* C33: can_trigger(name, tok) is true if and only if name has no recorded
\* state, or is Waiting(w) with tok = Some(w), and every provider of name is
\* Done(_); it is false for a name that is Done or Fail, and for a Waiting
\* one when tok is None or another token.
C33_CanTrigger ==
    data_answer # <<>> =>
       /\ data_answer[1].can_trigger <=> (MayFire /\ ProvidersDone)
       /\ ("n" \in DOMAIN data_states
              /\ data_states["n"].tag \in {"Done", "Fail"}) =>
             ~data_answer[1].can_trigger
       /\ ("n" \in DOMAIN data_states
              /\ data_states["n"].tag = "Waiting"
              /\ data_token # << data_states["n"].token >>) =>
             ~data_answer[1].can_trigger

\* Witness: a Waiting name with two Done providers asked with its token.
C33_Witness ==
    /\ data_answer # <<>>
    /\ data_answer[1].can_trigger
    /\ data_added = <<"p", "q">>
    /\ "n" \in DOMAIN data_states
    /\ data_states["n"] = Waiting(2)
    /\ data_token = <<2>>


\* ------------------------------------------------------------------------
\* C34: Data::get_inputs_for
\* ------------------------------------------------------------------------

\* The providers of "n" in provider order: the names added, each at its
\* first add.
ProviderOrder ==
    SelectSeq([i \in 1..Len(data_added) |-> <<i, data_added[i]>>],
              LAMBDA e : \A j \in 1..(e[1] - 1) : data_added[j] # e[2])

\* C34: get_inputs_for(name, tok) returns None exactly when can_trigger(name,
\* tok) is false; otherwise a vector as long as the providers of name are
\* many, whose i-th slot is the payload of the i-th provider, None exactly
\* when that provider is Done(None): such slots are kept.
C34_GetInputsFor ==
    data_answer # <<>> =>
       /\ data_answer[1].get_inputs_for = <<>> <=> ~data_answer[1].can_trigger
       /\ data_answer[1].get_inputs_for # <<>> =>
             LET slots == data_answer[1].get_inputs_for[1]
             IN  /\ Len(slots) = Len(ProviderOrder)
                 /\ Len(slots) = Cardinality(AddedProviders)
                 /\ \A i \in 1..Len(slots) :
                       /\ slots[i] = data_states[ProviderOrder[i][2]].payload
                       /\ slots[i] = "None" <=>
                             data_states[ProviderOrder[i][2]] = Done("None")

\* Witness: two providers, the first Done(None), the second with a payload.
C34_Witness ==
    /\ data_answer # <<>>
    /\ data_added = <<"p", "q">>
    /\ data_answer[1].get_inputs_for = << <<"None", "Json">> >>

\* ------------------------------------------------------------------------
\* C35: first_input_for, and what the filter writes for an implicit sink
\* ------------------------------------------------------------------------

\* first_input_for yields the first provider's payload, and only when
\* can_trigger holds.
FirstInputOfFirstProvider ==
    data_answer # <<>> =>
       /\ data_answer[1].first_input_for # "None" =>
             /\ data_answer[1].can_trigger
             /\ ProvidersDone
             /\ Len(ProviderOrder) > 0
       /\ (data_answer[1].can_trigger /\ Len(ProviderOrder) > 0) =>
             data_answer[1].first_input_for =
                data_states[ProviderOrder[1][2]].payload


\* The host calls that drain a sink, by the phase whose callback makes them.
SinkWrites ==
    {<<"HttpRequestBody", "service_request_headers",
       "set_http_request_headers">>,
     <<"HttpRequestBody", "service_request_body", "set_http_request_body">>,
     <<"HttpResponseHeaders", "response_headers",
       "set_http_response_headers">>,
     <<"HttpResponseHeaders", "response_body", "set_response_body_headers">>,
     <<"HttpResponseBody", "response_body", "set_http_response_body">>}

\* This step is the end of a phase callback, after run_nodes.
FinishStep == pc = "returned" /\ pc' = "idle"

\* The host calls of this step made for a sink with op: the filter's own,
\* the write of the trace apart.
WrittenFor(op) ==
    SelectSeq(SubSeq(trace', Len(trace) + 1, Len(trace')),
              LAMBDA e : e.op = op /\ e.name = "" /\ e.payload # "Trace")

\* A provider of the sink is absent, Waiting or Fail, or the first one is
\* Done(None).
NothingToDrain(sink) ==
    LET ps == each_input(config.graph, sink)
    IN  \/ \E i \in 1..Len(ps) : ~IsDone(states, ps[i])
        \/ Len(ps) > 0 /\ IsDone(states, ps[1])
              /\ states[ps[1]].payload = "None"

\* C35: an implicit sink is drained through first_input_for, which yields
\* the payload of the sink's first provider only when all its providers are
\* Done; if a provider is absent, Waiting or Fail, or the first provider is
\* Done(None), nothing is written to the host for that sink in that phase.
C35_SinkDrain ==
    [][FinishStep =>
          \A w \in SinkWrites :
             w[1] = phase =>
                /\ NothingToDrain(w[2]) => WrittenFor(w[3]) = <<>>
                /\ WrittenFor(w[3]) # <<>> =>
                      LET ps == each_input(config.graph, w[2])
                      IN  /\ Len(WrittenFor(w[3])) = 1
                          /\ Len(ps) > 0
                          /\ \A i \in 1..Len(ps) : IsDone(states, ps[i])
                          /\ WrittenFor(w[3])[1].payload
                                \in {states[ps[1]].payload, "Empty"}]_vars

\* Witness: the response headers callback has ended without writing the
\* headers, the sink's first provider being Done(None) and its second
\* holding a payload.
C35_Witness ==
    /\ config.node_list = TwoWriters
    /\ phase = "HttpResponseHeaders"
    /\ pc = "idle"
    /\ flags.do_response_headers
    /\ "u" \in DOMAIN states
    /\ "v" \in DOMAIN states
    /\ states["u"] = Done("None")
    /\ states["v"].tag = "Done"
    /\ states["v"].payload # "None"
    /\ \A i \in 1..Len(trace) : trace[i].op # "set_http_response_headers"


\* ------------------------------------------------------------------------
\* C36: implicit nodes that nothing is connected to are skipped
\* ------------------------------------------------------------------------

\* The flag of each implicit source.
SourceFlags ==
    {<<"request_headers", "do_request_headers">>,
     <<"request_body", "do_request_body">>,
     <<"service_response_headers", "do_service_response_headers">>,
     <<"service_response_body", "do_service_response_body">>}

\* The flag of each implicit sink but response_body.
SinkFlags ==
    {<<"service_request_headers", "do_service_request_headers">>,
     <<"service_request_body", "do_service_request_body">>,
     <<"response_headers", "do_response_headers">>}

\* The flags are those of the graph, as computed when the context was
\* created; do_response_body is set also once a trace was requested.
FlagsOfGraph ==
    /\ \A f \in SourceFlags : flags[f[2]] = has_dependents(config.graph, f[1])
    /\ \A f \in SinkFlags : flags[f[2]] = has_providers(config.graph, f[1])
    /\ flags.do_response_body =
          (has_providers(config.graph, "response_body") \/ tracing)

\* An implicit source has a recorded state only if it has a dependent.
SourcesConnected ==
    \A f \in SourceFlags :
       f[1] \in DOMAIN states => has_dependents(config.graph, f[1])

\* The host calls of this step made by the filter itself with op.
WrittenBy(op) ==
    SelectSeq(SubSeq(trace', Len(trace) + 1, Len(trace')),
              LAMBDA e : e.op = op /\ e.name = "")

\* C36: an implicit source is recorded in Data only if the graph has a
\* dependent of it, and an implicit sink is written to the host only if the
\* graph has a provider of it (response_body also when a trace was
\* requested); the eight flags are those computed from the graph when the
\* context was created.
C36_SkipUnconnected ==
    [][/\ FlagsOfGraph /\ FlagsOfGraph'
       /\ SourcesConnected /\ SourcesConnected'
       /\ \A f \in SourceFlags \cup SinkFlags : flags'[f[2]] = flags[f[2]]
       /\ FinishStep =>
             \A w \in SinkWrites :
                (w[1] = phase /\ WrittenBy(w[3]) # <<>>) =>
                   \/ has_providers(config.graph, w[2])
                   \/ w[2] = "response_body" /\ tracing]_vars

\* Witness: the request body callback has ended with request_body, which
\* has a dependent, recorded, request_headers, which has none, skipped, and
\* the sink service_request_body, which has a provider, written.
C36_Witness ==
    /\ config.node_list = BodyRewrite
    /\ phase = "HttpRequestBody"
    /\ pc = "idle"
    /\ eof
    /\ DOMAIN states = {"request_body", "w"}
    /\ ~flags.do_request_headers
    /\ flags.do_service_request_body
    /\ \E i \in 1..Len(trace) : trace[i].op = "set_http_request_body"


\* ------------------------------------------------------------------------
\* C37: a Call resumed without a response body
\* ------------------------------------------------------------------------

\* This on_http_call_response resumed a Call whose response had no body.
ResumedWithoutBody ==
    /\ phase = "HttpCallResponse"
    /\ trace # <<>>
    /\ trace[1].op = "resume"
    /\ call_body = <<"None">>

\* d was made ready by the resume of c: it had no state when the callback
\* began, c provides for it and its other providers were Done.
MadeReadyBy(d, c) ==
    /\ d \notin DOMAIN cbStart
    /\ \E i \in 1..Len(Providers(d)) : Providers(d)[i] = c
    /\ \A i \in 1..Len(Providers(d)) :
          Providers(d)[i] = c \/ IsDone(cbStart, Providers(d)[i])

\* C37: a Call resumed when the subrequest's response has no body returns
\* Done(None), never Fail and never Waiting, so its dependents become ready
\* and run in the scheduler pass of the same on_http_call_response callback,
\* with None in the slot of the Call.
C37_ResumeWithoutBody ==
    [][/\ \A n \in UserNodes :
             (ResumeStep(n) /\ nodes[n].type = "call") =>
                /\ trace'[1].tag = "Done"
                /\ call_body' = <<"None">> => trace'[1].payload = "None"
       /\ \A d \in UserNodes :
             (ResumedWithoutBody /\ RunStep(d)) =>
                \A i \in 1..Len(Providers(d)) :
                   Providers(d)[i] = trace[1].name =>
                      get_inputs_for(states, config.graph, d, <<>>)[1][i]
                         = "None"
       /\ (ResumedWithoutBody /\ FinishStep) =>
             \A d \in UserNodes :
                MadeReadyBy(d, trace[1].name) =>
                   \E i \in 1..Len(trace) :
                      trace[i].op = "run" /\ trace[i].name = d]_vars

\* Witness: Call c was resumed without a body and Response r, which consumes
\* c, has run in the same callback and sent a response without a body.
C37_Witness ==
    /\ config.node_list = CallThenResponse
    /\ phase = "HttpCallResponse"
    /\ pc = "idle"
    /\ call_body = <<"None">>
    /\ Len(trace) = 4
    /\ trace[1].op = "resume"
    /\ trace[1].name = "c"
    /\ trace[1].payload = "None"
    /\ trace[2].op = "send_http_response"
    /\ trace[2].payload = "None"
    /\ trace[3].op = "run"
    /\ trace[3].name = "r"


\* ------------------------------------------------------------------------
\* C38: resume_http_request and the subrequests still outstanding
\* ------------------------------------------------------------------------

\* The nodes whose recorded state is Waiting.
WaitingNodes == {n \in DOMAIN states : states[n].tag = "Waiting"}

\* C38: whenever resume_http_request is called at the end of
\* on_http_call_response, no node of the transaction is Waiting: the paused
\* transaction is not resumed while a subrequest dispatched by another node
\* is still outstanding.
C38_NoWaitingAtResume ==
    (/\ phase = "HttpCallResponse"
     /\ pc = "idle"
     /\ trace # <<>>
     /\ trace[Len(trace)].op = "resume_http_request") => WaitingNodes = {}


\* ------------------------------------------------------------------------
\* C39: the slots passed to a node and the inputs its configuration stores
\* ------------------------------------------------------------------------

\* The inputs stored in the configuration of the node that build_nodes
\* keeps for n: the last entry of that name.
StoredInputs(n) ==
    LET last == CHOOSE i \in 1..Len(config.node_list) :
                    /\ config.node_list[i].name = n
                    /\ \A j \in (i + 1)..Len(config.node_list) :
                          config.node_list[j].name # n
    IN  config.node_inputs[last]

\* The slots passed to n, invoked in this step with the token.
SlotsPassed(n, token) == get_inputs_for(states, config.graph, n, token)[1]

\* n is given as many slots as its configuration stores inputs; a Jq's exec
\* on them does not report their number.
SlotsAsStored(n, token) ==
    /\ Len(SlotsPassed(n, token)) = Len(StoredInputs(n))
    /\ nodes[n].type = "jq" =>
          \A items \in {<<>>, << [ok |-> TRUE, v |-> "v1"] >>} :
             jq_exec(Len(StoredInputs(n)), SlotsPassed(n, token), items)
                # JqErr(<<"invalid number of inputs">>)

\* C39: whenever a node is run or resumed, the number of input slots passed
\* equals the number of input names stored in its configuration (both are
\* the graph's provider list of the node), so a Jq node driven by the filter
\* never fails with "invalid number of inputs".
C39_SlotsMatchConfig ==
    [][\A n \in UserNodes :
          /\ RunStep(n) => SlotsAsStored(n, <<>>)
          /\ ResumeStep(n) => SlotsAsStored(n, <<cbToken'>>)]_vars

\* Witness: Jq u, declared with the same input twice and having one
\* provider, has run.
C39_Witness ==
    /\ config.node_list = TwoWriters
    /\ Len(config.node_list[1].inputs) = 2
    /\ Len(StoredInputs("u")) = 1
    /\ runCount["u"] = 1


\* ------------------------------------------------------------------------
\* C40: the names that have a recorded state
\* ------------------------------------------------------------------------

\* The names that can have a recorded state.
Recordable ==
    UserNodes \cup SourceNames
       \cup (IF config.debug THEN {"response_body"} ELSE {})

\* The state recorded for n changes in this step.
Recorded(n) ==
    /\ n \in DOMAIN states'
    /\ n \in DOMAIN states => states'[n] # states[n]

\* C40: the names with a recorded state are only configured user nodes and
\* the four implicit sources, plus response_body only when debug is
\* configured; a user node's state is recorded only as the result of that
\* node's own run or resume.
C40_RecordedNames ==
    [][/\ DOMAIN states \subseteq Recordable
       /\ DOMAIN states' \subseteq Recordable
       /\ \A n \in UserNodes :
             Recorded(n) =>
                /\ RunStep(n) \/ ResumeStep(n)
                /\ states'[n].tag = trace'[Len(trace')].tag
                /\ states'[n].payload = trace'[Len(trace')].payload]_vars

\* Witness: with debug, a transaction has ended with the states of a source,
\* of two user nodes and of response_body recorded.
C40_Witness ==
    /\ config.debug
    /\ config.node_list = SinkAsInput
    /\ phase = "HttpResponseBody"
    /\ pc = "idle"
    /\ "response_body" \in DOMAIN states
    /\ "service_response_body" \in DOMAIN states
    /\ "c" \in DOMAIN states

====
